---- MODULE Spec2Model ----
(***************************************************************************)
(* A model of exiledb's bundle reader, path resolver, index decoder and    *)
(* DAT decoder.  Each component is a small state machine over its own      *)
(* variables; `component` names the one a behaviour exercises.             *)
(***************************************************************************)
EXTENDS Integers, Sequences, FiniteSets, TLC

VARIABLES
    component,  \* which component this behaviour exercises
    r,          \* bundle: the io.ReaderAt handed to OpenBundle (the bundle file)
    b,          \* bundle: the value OpenBundle returned
    rd,         \* bundle: the last ReadAt / Read call and its outcome
    rdFirst,    \* bundle: outcome of the same call made just before, when repeated
    m,          \* manager: the BundleManager (index, languages)
    cache,      \* manager: the cached bundle files, by bundle name
    mc,         \* manager: the last FileExists / GetFile call and its outcome
    dat,        \* DAT decoder: the file, the schema and the parse in progress
    ix,         \* index decoder: the payload and the load in progress
    strCall,    \* ReadString: one call, its input and its loop in progress
    par,        \* DAT decoder: two ParseDATFileWithFilename calls on one parser
    conc,       \* bundle: two ReadAt calls in progress on one bundle
    bset,       \* GetBundleSet: the index, the selection and the returned set
    lookup,     \* GetTableSchemaForVersion: the document, the call, the outcome
    fn,         \* one call of a function of the decoders: its arguments, its result
    extract     \* extract loop: the manager, the languages and the rows stored

bundleVars == <<r, b, rd, rdFirst>>

mgrVars == <<m, cache, mc>>

vars == <<component, r, b, rd, rdFirst, m, cache, mc, dat, ix,
          strCall, par, conc, bset, lookup, fn, extract>>

notBundle == <<component, m, cache, mc, dat, ix, strCall, par, conc, bset, lookup, fn, extract>>

notMgr == <<component, r, b, rd, rdFirst, dat, ix, strCall, par, conc, bset, lookup, fn, extract>>

notDat == <<component, r, b, rd, rdFirst, m, cache, mc, ix,
            strCall, par, conc, bset, lookup, fn, extract>>

notIx == <<component, r, b, rd, rdFirst, m, cache, mc, dat,
           strCall, par, conc, bset, lookup, fn, extract>>

notStr == <<component, r, b, rd, rdFirst, m, cache, mc, dat, ix,
            par, conc, bset, lookup, fn, extract>>

notPar == <<component, r, b, rd, rdFirst, m, cache, mc, dat, ix,
            strCall, conc, bset, lookup, fn, extract>>

notConc == <<component, r, b, rd, rdFirst, m, cache, mc, dat, ix,
             strCall, par, bset, lookup, fn, extract>>

notBset == <<component, r, b, rd, rdFirst, m, cache, mc, dat, ix,
             strCall, par, conc, lookup, fn, extract>>

notLookup == <<component, r, b, rd, rdFirst, m, cache, mc, dat, ix,
               strCall, par, conc, bset, fn, extract>>

notFn == <<component, r, b, rd, rdFirst, m, cache, mc, dat, ix,
           strCall, par, conc, bset, lookup, extract>>

notExtract == <<component, r, b, rd, rdFirst, m, cache, mc, dat, ix,
                strCall, par, conc, bset, lookup, fn>>

-----------------------------------------------------------------------------
(* Bounds *)

MaxSize == 4        \* longest uncompressed stream
MaxGran == 3        \* largest block granularity in a header
MaxBlocks == 3      \* largest block count in a header
MaxTrunc == 2       \* most bytes cut from the end of a bundle file
MaxLangs == 2       \* longest configured language list

-----------------------------------------------------------------------------
(* Helpers shared by the components *)

Min(x, y) == IF x < y THEN x ELSE y

\* Go's integer division truncates toward zero; % takes the dividend's sign.
GoDiv(x, y) == IF x >= 0 THEN x \div y ELSE -((-x) \div y)

GoMod(x, y) == x - y * GoDiv(x, y)

Zeros(n) == [i \in 1..n |-> 0]

None == [state |-> "none"]

MgrIdle ==
    /\ m = None
    /\ cache = None
    /\ mc = None

DatIdle == dat = None

IxIdle == ix = None

StrIdle == strCall = None

ParIdle == par = None

ConcIdle == conc = None

BsetIdle == bset = None

LookupIdle == lookup = None

\* The components added after the first four are not exercised.
FnIdle == fn = None

ExtractIdle == extract = None

LateIdle == FnIdle /\ ExtractIdle

RestIdle == StrIdle /\ ParIdle /\ ConcIdle /\ BsetIdle /\ LookupIdle /\ LateIdle

-----------------------------------------------------------------------------
(* The block codec (github.com/oriath-net/gooz), seen through its contract:  *)
(* a compressed block carries its raw length and an encoding of its bytes;   *)
(* decoding into an output of another length, or from a cut block, fails.    *)

GoozCompress(raw) == <<Len(raw)>> \o [i \in 1..Len(raw) |-> 255 - raw[i]]

GoozDecompress(in, outLen) ==
    IF Len(in) = 0 \/ outLen < 0 THEN [err |-> TRUE, out |-> <<>>]
    ELSE IF in[1] /= outLen \/ Len(in) /= outLen + 1 THEN [err |-> TRUE, out |-> <<>>]
    ELSE [err |-> FALSE, out |-> [i \in 1..outLen |-> 255 - in[i + 1]]]

-----------------------------------------------------------------------------
(* Bundle files *)

HeaderSize == 60

\* The stream "ABC..." of the given length: every position holds another byte.
Content(size) == [i \in 1..(IF size < 0 THEN 0 ELSE size) |-> 64 + i]

\* Block i (0-based) of a stream cut into blocks of gran bytes.
Chunk(content, gran, i) ==
    IF gran <= 0 THEN <<>>
    ELSE SubSeq(content, i * gran + 1, Min((i + 1) * gran, Len(content)))

RECURSIVE Concat(_)
Concat(ss) == IF ss = <<>> THEN <<>> ELSE Head(ss) \o Concat(Tail(ss))

\* A bundle file: header fields, block-size table, and the compressed blocks
\* one after another, the last `trunc` bytes of the file missing.
BundleFile(kind, size, gran, nblocks, trunc) ==
    LET blks == [i \in 1..nblocks |-> GoozCompress(Chunk(Content(size), gran, i - 1))]
        payload == Concat(blks)
    IN  [kind |-> kind,
         UncompressedSize2 |-> size,
         UncompressedBlockGranularity |-> gran,
         BlockCount |-> nblocks,
         blockSizes |-> [i \in 1..nblocks |-> Len(blks[i])],
         payload |-> SubSeq(payload, 1, Len(payload) - Min(trunc, Len(payload)))]

TableEnd(f) == HeaderSize + 4 * f.BlockCount

FileLen(f) == TableEnd(f) + Len(f.payload)

\* BytesReaderAt.ReadAt: a short copy is returned with a nil error.
BytesReaderAtReadAt(f, len, off) ==
    IF off < 0 \/ off >= FileLen(f) THEN [n |-> 0, err |-> "EOF", bytes |-> <<>>]
    ELSE LET n == Min(len, FileLen(f) - off)
         IN  [n |-> n, err |-> "nil",
              bytes |-> [i \in 1..n |-> f.payload[off - TableEnd(f) + i]]]

\* os.File / bytes.Reader ReadAt: n < len(p) comes with a non-nil error.
StdReadAt(f, len, off) ==
    IF off < 0 THEN [n |-> 0, err |-> "negative offset", bytes |-> <<>>]
    ELSE IF off >= FileLen(f) THEN [n |-> 0, err |-> "EOF", bytes |-> <<>>]
    ELSE LET n == Min(len, FileLen(f) - off)
         IN  [n |-> n, err |-> IF n < len THEN "EOF" ELSE "nil",
              bytes |-> [i \in 1..n |-> f.payload[off - TableEnd(f) + i]]]

DataReadAt(f, len, off) ==
    IF f.kind = "BytesReaderAt" THEN BytesReaderAtReadAt(f, len, off)
    ELSE StdReadAt(f, len, off)

-----------------------------------------------------------------------------
(* OpenBundle *)

RECURSIVE BlockOffsets(_, _, _)
BlockOffsets(sizes, i, p) ==
    IF i > Len(sizes) THEN <<>>
    ELSE <<[offset |-> p, length |-> sizes[i]]>> \o BlockOffsets(sizes, i + 1, p + sizes[i])

OpenBundleResult(f) ==
    LET blocks == BlockOffsets(f.blockSizes, 1, TableEnd(f))
        size == f.UncompressedSize2
        granularity == f.UncompressedBlockGranularity
    IN  IF granularity = 0 THEN [state |-> "error", err |-> "granularity is 0"]
        ELSE LET expectedBlocks == GoDiv(size, granularity)
                                   + (IF GoMod(size, granularity) > 0 THEN 1 ELSE 0)
             IN  IF expectedBlocks /= Len(blocks)
                 THEN [state |-> "error", err |-> "block count"]
                 ELSE [state |-> "open", data |-> f, size |-> size,
                       granularity |-> granularity, blocks |-> blocks]

-----------------------------------------------------------------------------
(* bundle.ReadAt *)

\* Uncompressed size of block blkId: the last block holds the tail.
RawSizeAlwaysGranularity(bd, blkId) == bd.granularity

RawSize(bd, blkId) ==
    IF blkId = Len(bd.blocks) - 1 THEN bd.size - blkId * bd.granularity
    ELSE bd.granularity

\* The bounds check at the head of ReadAt.
OutsideBounds(bd, len, off) == off + len > bd.size

Panic(nd) == [n |-> 0, err |-> "panic", p |-> <<>>, panic |-> TRUE, nd |-> nd]

\* The loop of ReadAt: n bytes of the len(p) = len asked for are in p, the next
\* byte wanted is at off, obuf is the scratch block, nd blocks were decompressed.
RECURSIVE ReadAtLoop(_, _, _, _, _, _, _)
ReadAtLoop(bd, len, n, off, p, obuf, nd) ==
    IF n >= len THEN [n |-> n, err |-> "nil", p |-> p, panic |-> FALSE, nd |-> nd]
    ELSE
    LET blkId == GoDiv(off, bd.granularity)
        blkOff == GoMod(off, bd.granularity)
    IN  IF blkId < 0 \/ blkId >= Len(bd.blocks) THEN Panic(nd)  \* b.blocks[blkId]
        ELSE
        LET blk == bd.blocks[blkId + 1]
            rawSize == RawSize(bd, blkId)
        IN  IF blk.length > bd.granularity + 64 THEN Panic(nd)  \* ibuf[:blk.length]
            ELSE
            LET got == DataReadAt(bd.data, blk.length, blk.offset)
            IN  IF got.n /= blk.length
                THEN [n |-> 0, err |-> got.err, p |-> p, panic |-> FALSE, nd |-> nd]
                ELSE IF rawSize < 0 \/ rawSize > bd.granularity THEN Panic(nd)  \* obuf[:rawSize]
                ELSE
                LET dec == GoozDecompress(got.bytes, rawSize)
                IN  IF dec.err
                    THEN [n |-> 0, err |-> "decompression failed", p |-> p,
                          panic |-> FALSE, nd |-> nd + 1]
                    ELSE IF blkOff < 0 THEN Panic(nd + 1)       \* obuf[blkOff:]
                    ELSE
                    LET obuf2 == [i \in 1..bd.granularity |->
                                    IF i <= rawSize THEN dec.out[i] ELSE obuf[i]]
                        copied == Min(len - n, bd.granularity - blkOff)
                        p2 == [i \in 1..len |->
                                    IF i > n /\ i <= n + copied
                                    THEN obuf2[blkOff + (i - n)] ELSE p[i]]
                    IN  ReadAtLoop(bd, len, n + copied, off + copied, p2, obuf2, nd + 1)

ReadAtResult(bd, len, off) ==
    IF OutsideBounds(bd, len, off)
    THEN [n |-> 0, err |-> "read outside bounds of file", p |-> Zeros(len),
          panic |-> FALSE, nd |-> 0]
    ELSE ReadAtLoop(bd, len, 0, off, Zeros(len), Zeros(bd.granularity), 0)

Call(op, len, off, res) ==
    [state |-> "done", op |-> op, len |-> len, off |-> off, n |-> res.n,
     err |-> res.err, p |-> res.p, panic |-> res.panic, nd |-> res.nd]

-----------------------------------------------------------------------------
(* The bundle component's operations *)

BundleInit ==
    /\ \E kind \in {"BytesReaderAt", "File"}, size \in (-1)..MaxSize, gran \in 0..MaxGran,
          nblocks \in 0..MaxBlocks, trunc \in 0..MaxTrunc :
            r = BundleFile(kind, size, gran, nblocks, trunc)
    /\ b = None
    /\ rd = None
    /\ rdFirst = None

BundleIdle ==
    /\ r = None
    /\ b = None
    /\ rd = None
    /\ rdFirst = None

OpenBundle ==
    /\ component = "bundle"
    /\ b.state = "none"
    /\ b' = OpenBundleResult(r)
    /\ UNCHANGED <<r, rd, rdFirst, notBundle>>

\* b.ReadAt(p, off) with len(p) = len, on a freshly made buffer.
ReadAt ==
    /\ component = "bundle"
    /\ b.state = "open"
    /\ \E len \in 0..(MaxSize + 1), off \in (-MaxGran - 1)..(MaxSize + 1) :
            rd' = Call("ReadAt", len, off, ReadAtResult(b, len, off))
    /\ rdFirst' = None
    /\ UNCHANGED <<r, b, notBundle>>

\* The call just made, made again with the same arguments.
ReadAtAgain ==
    /\ component = "bundle"
    /\ b.state = "open"
    /\ rd.state = "done"
    /\ rd.op = "ReadAt"
    /\ rdFirst.state = "none"
    /\ rdFirst' = rd
    /\ rd' = Call("ReadAt", rd.len, rd.off, ReadAtResult(b, rd.len, rd.off))
    /\ UNCHANGED <<r, b, notBundle>>

\* b.Read(): the whole stream; an error of ReadAt is wrapped, its n dropped.
\* make([]byte, b.size) panics on a negative size.
Read ==
    /\ component = "bundle"
    /\ b.state = "open"
    /\ LET res == IF b.size < 0 THEN Panic(0) ELSE ReadAtResult(b, b.size, 0)
       IN  rd' = Call("Read", b.size, 0,
                      IF res.err = "nil" \/ res.panic THEN res
                      ELSE [res EXCEPT !.err = "reading bundle data", !.p = <<>>])
    /\ rdFirst' = None
    /\ UNCHANGED <<r, b, notBundle>>

NextBundle == OpenBundle \/ ReadAt \/ ReadAtAgain \/ Read

InitBundle == component = "bundle" /\ BundleInit /\ MgrIdle /\ DatIdle /\ IxIdle /\ RestIdle

SpecBundle == InitBundle /\ [][NextBundle]_vars

-----------------------------------------------------------------------------
(* Claims about the bundle reader *)

\* The compressed bytes of block i (0-based) as the file holds them.
StoredBlock(bd, i) ==
    LET blk == bd.blocks[i + 1]
        from == blk.offset - TableEnd(bd.data)
    IN  SubSeq(bd.data.payload, from + 1, Min(from + blk.length, Len(bd.data.payload)))

\* Block i is whole in the file and the codec decodes it.
BlockDecodes(bd, i) ==
    LET in == StoredBlock(bd, i)
    IN  /\ Len(in) = bd.blocks[i + 1].length
        /\ Len(in) > 0
        /\ ~GoozDecompress(in, in[1]).err

\* The logical uncompressed stream: the decompressed blocks one after another.
LogicalStream(bd) ==
    Concat([i \in 1..Len(bd.blocks) |->
                LET in == StoredBlock(bd, i - 1) IN GoozDecompress(in, in[1]).out])

StreamDefined(bd) ==
    /\ \A i \in 0..(Len(bd.blocks) - 1) : BlockDecodes(bd, i)
    /\ Len(LogicalStream(bd)) = bd.size

InRange(bd, c) == c.off >= 0 /\ c.off + c.len <= bd.size

\* C1: on an opened bundle whose blocks all decompress, ReadAt(p, off) with
\* off >= 0 and off + len(p) <= Size() returns n = len(p), a nil error and
\* p = bytes [off, off + len(p)) of the logical stream, also across blocks and
\* into the shorter last block; the same call made again returns the same.
C1_ReadAtReturnsStream ==
    (/\ b.state = "open"
     /\ StreamDefined(b)
     /\ rd.state = "done"
     /\ rd.op = "ReadAt"
     /\ InRange(b, rd))
    => /\ ~rd.panic
       /\ rd.err = "nil"
       /\ rd.n = rd.len
       /\ rd.p = SubSeq(LogicalStream(b), rd.off + 1, rd.off + rd.len)
       /\ rdFirst.state = "done" =>
            /\ rdFirst.n = rd.n
            /\ rdFirst.err = rd.err
            /\ rdFirst.p = rd.p

\* A repeated in-range read that starts inside one block and ends inside the
\* shorter last block.
C1_Witness ==
    /\ b.state = "open"
    /\ StreamDefined(b)
    /\ rd.state = "done"
    /\ rd.op = "ReadAt"
    /\ InRange(b, rd)
    /\ rdFirst.state = "done"
    /\ rd.nd >= 2
    /\ rd.off > 0
    /\ rd.off + rd.len = b.size
    /\ GoMod(b.size, b.granularity) > 0
    /\ rd.p = SubSeq(Content(b.size), rd.off + 1, b.size)

\* C2: a nil error from ReadAt or Read means the buffer was filled: n = len(p)
\* for ReadAt, and every byte of the buffer is the stream's byte.
C2_NilErrorImpliesFilled ==
    (/\ b.state = "open"
     /\ rd.state = "done"
     /\ ~rd.panic
     /\ rd.err = "nil")
    => /\ rd.n = rd.len
       /\ Len(rd.p) = rd.len
       /\ rd.off >= 0 => rd.p = SubSeq(Content(b.size), rd.off + 1, rd.off + rd.len)

\* C3: a read whose range is not inside [0, Size()] is rejected with the
\* out-of-bounds error and n = 0, before any block is decompressed, without a
\* crash.
C3_OutOfRangeRejected ==
    (/\ b.state = "open"
     /\ rd.state = "done"
     /\ rd.op = "ReadAt"
     /\ (rd.off < 0 \/ rd.off + rd.len > b.size))
    => /\ ~rd.panic
       /\ rd.err = "read outside bounds of file"
       /\ rd.n = 0
       /\ rd.nd = 0

-----------------------------------------------------------------------------
(* Strings: sequences of bytes (ASCII codes), compared bytewise as Go does *)

ToLowerByte(c) == IF c >= 65 /\ c <= 90 THEN c + 32 ELSE c

ToLower(str) == [i \in 1..Len(str) |-> ToLowerByte(str[i])]

ToUpperByte(c) == IF c >= 97 /\ c <= 122 THEN c - 32 ELSE c

ToUpper(str) == [i \in 1..Len(str) |-> ToUpperByte(str[i])]

HasPrefix(str, prefix) ==
    Len(str) >= Len(prefix) /\ SubSeq(str, 1, Len(prefix)) = prefix

TrimPrefix(str, prefix) ==
    IF HasPrefix(str, prefix) THEN SubSeq(str, Len(prefix) + 1, Len(str)) ELSE str

RECURSIVE StrLess(_, _)
StrLess(x, y) ==
    IF y = <<>> THEN FALSE
    ELSE IF x = <<>> THEN TRUE
    ELSE IF Head(x) /= Head(y) THEN Head(x) < Head(y)
    ELSE StrLess(Tail(x), Tail(y))

StrDataLower == <<100, 97, 116, 97, 47>>        \* "data/"

StrDataUpper == <<68, 97, 116, 97, 47>>         \* "Data/"

StrDataCaps == <<68, 65, 84, 65, 47>>           \* "DATA/"

StrArt == <<97, 114, 116, 47>>                  \* "art/"

StrSlash == <<47>>                              \* "/"

English == <<69, 110, 103, 108, 105, 115, 104>> \* "English"

French == <<70, 114, 101, 110, 99, 104>>        \* "French"

German == <<71, 101, 114, 109, 97, 110>>        \* "German"

Languages == {English, French, German}

FileT == <<116>>                                \* "t", a file name

-----------------------------------------------------------------------------
(* BundleManager *)

\* The paths an index may hold, in the order their bytes lie in the bundles.
IndexPaths ==
    << StrDataLower \o FileT,
       StrDataLower \o ToLower(French) \o StrSlash \o FileT,
       StrDataLower \o ToLower(German) \o StrSlash \o FileT,
       StrArt \o FileT >>

\* The paths callers ask for.
RequestPaths ==
    { StrDataLower \o FileT,
      StrDataUpper \o FileT,
      StrDataCaps \o FileT,
      StrArt \o FileT,
      StrDataLower \o ToLower(French) \o StrSlash \o FileT }

BundleNames == <<"b0", "b1">>

\* File j of IndexPaths: one byte at offset j-1 of bundle (j-1) mod 2.
FileInfo(j) ==
    [path |-> IndexPaths[j], bundleId |-> (j - 1) % Len(BundleNames),
     offset |-> j - 1, size |-> 1]

\* sort.Slice(files, by path) at the end of index loading.
RECURSIVE SortByPath(_)
SortByPath(fs) ==
    IF fs = {} THEN <<>>
    ELSE LET least == CHOOSE f \in fs : \A g \in fs : ~StrLess(g.path, f.path)
         IN  <<least>> \o SortByPath(fs \ {least})

\* A cached bundle: every bundle holds the stream "ABCD.." in blocks of 2 bytes.
CachedBundle(trunc) ==
    BundleFile("File", Len(IndexPaths), 2, (Len(IndexPaths) + 1) \div 2, trunc)

Missing == [state |-> "missing"]

\* findFileInIndex: binary search; the 1-based position of path, 0 for nil.
RECURSIVE findFileInIndexLoop(_, _, _, _)
findFileInIndexLoop(files, path, left, right) ==
    IF left > right THEN 0
    ELSE LET mid == left + (right - left) \div 2
         IN  IF files[mid + 1].path = path THEN mid + 1
             ELSE IF StrLess(files[mid + 1].path, path)
                  THEN findFileInIndexLoop(files, path, mid + 1, right)
                  ELSE findFileInIndexLoop(files, path, left, mid - 1)

findFileInIndex(mgr, path) ==
    findFileInIndexLoop(mgr.index.files, path, 0, Len(mgr.index.files) - 1)

\* The candidate of one language.
LangPathEnglishSubdir(lang, filename) ==
    StrDataLower \o ToLower(lang) \o StrSlash \o filename

LangPath(lang, filename) ==
    IF lang = English THEN StrDataLower \o filename
    ELSE StrDataLower \o ToLower(lang) \o StrSlash \o filename

RECURSIVE LangPaths(_, _, _)
LangPaths(languages, filename, i) ==
    IF i > Len(languages) THEN <<>>
    ELSE <<LangPath(languages[i], filename)>> \o LangPaths(languages, filename, i + 1)

resolvePaths(mgr, inputPath) ==
    IF HasPrefix(inputPath, StrDataUpper)
    THEN LangPaths(mgr.languages, TrimPrefix(inputPath, StrDataUpper), 1)
    ELSE IF HasPrefix(inputPath, StrDataLower)
    THEN LangPaths(mgr.languages, TrimPrefix(inputPath, StrDataLower), 1)
    ELSE <<inputPath>>

\* readFileFromBundle: open the cached bundle and read the file's bytes.
readFileFromBundle(mgr, cch, fileInfo) ==
    IF fileInfo.bundleId >= Len(mgr.index.bundles)
    THEN [err |-> "panic", data |-> <<>>]
    ELSE
    LET bundleName == mgr.index.bundles[fileInfo.bundleId + 1]
        bundleFile == cch[bundleName]
    IN  IF bundleFile = Missing
        THEN [err |-> "bundle file does not exist", data |-> <<>>]
        ELSE LET bd == OpenBundleResult(bundleFile)
             IN  IF bd.state /= "open" THEN [err |-> "opening bundle", data |-> <<>>]
                 ELSE LET res == ReadAtResult(bd, fileInfo.size, fileInfo.offset)
                      IN  IF res.panic THEN [err |-> "panic", data |-> <<>>]
                          ELSE IF res.err /= "nil"
                          THEN [err |-> "reading file data from bundle", data |-> <<>>]
                          ELSE [err |-> "nil", data |-> res.p]

\* The loop of GetFile over the candidates, from candidate i on.
RECURSIVE GetFileLoop(_, _, _, _, _)
GetFileLoop(mgr, cch, paths, i, lastErr) ==
    IF i > Len(paths)
    THEN [err |-> IF lastErr /= "nil" THEN lastErr ELSE "fs.ErrNotExist",
          data |-> <<>>, used |-> <<>>]
    ELSE LET at == findFileInIndex(mgr, paths[i])
         IN  IF at = 0 THEN GetFileLoop(mgr, cch, paths, i + 1, "file not found")
             ELSE LET got == readFileFromBundle(mgr, cch, mgr.index.files[at])
                  IN  IF got.err = "panic"
                      THEN [err |-> "panic", data |-> <<>>, used |-> paths[i]]
                      ELSE IF got.err /= "nil"
                      THEN GetFileLoop(mgr, cch, paths, i + 1, "reading file from bundle")
                      ELSE [err |-> "nil", data |-> got.data, used |-> paths[i]]

GetFileResult(mgr, cch, path) == GetFileLoop(mgr, cch, resolvePaths(mgr, path), 1, "nil")

FileExistsResult(mgr, path) ==
    \E i \in 1..Len(resolvePaths(mgr, path)) :
        findFileInIndex(mgr, resolvePaths(mgr, path)[i]) /= 0

\* NewBundleManager: a loaded index, languages [English].
MgrInit ==
    /\ \E present \in SUBSET (1..Len(IndexPaths)) :
            m = [index |-> [bundles |-> BundleNames,
                            files |-> SortByPath({FileInfo(j) : j \in present})],
                 languages |-> <<English>>]
    /\ cache \in [{BundleNames[k] : k \in 1..Len(BundleNames)} ->
                    {Missing, CachedBundle(0), CachedBundle(1)}]
    /\ mc = None

LanguageLists == UNION {[1..n -> Languages] : n \in 0..MaxLangs}

\* SetLanguages is called once the manager is built, before it is used.
SetLanguages ==
    /\ component = "manager"
    /\ mc.state = "none"
    /\ \E languages \in LanguageLists :
            m' = [m EXCEPT !.languages =
                        IF Len(languages) = 0 THEN <<English>> ELSE languages]
    /\ mc' = None
    /\ UNCHANGED <<cache, notMgr>>

FileExists ==
    /\ component = "manager"
    /\ \E path \in RequestPaths :
            mc' = [state |-> "done", op |-> "FileExists", path |-> path,
                   paths |-> resolvePaths(m, path),
                   exists |-> FileExistsResult(m, path)]
    /\ UNCHANGED <<m, cache, notMgr>>

GetFile ==
    /\ component = "manager"
    /\ \E path \in RequestPaths :
            LET res == GetFileResult(m, cache, path)
            IN  mc' = [state |-> "done", op |-> "GetFile", path |-> path,
                       paths |-> resolvePaths(m, path),
                       err |-> res.err, data |-> res.data, used |-> res.used]
    /\ UNCHANGED <<m, cache, notMgr>>

NextMgr == SetLanguages \/ FileExists \/ GetFile

InitMgr == component = "manager" /\ MgrInit /\ BundleIdle /\ DatIdle /\ IxIdle /\ RestIdle

SpecMgr == InitMgr /\ [][NextMgr]_vars

-----------------------------------------------------------------------------
(* Claims about the path resolver and GetFile / FileExists *)

InIndex(mgr, path) ==
    \E k \in 1..Len(mgr.index.files) : mgr.index.files[k].path = path

\* The bytes of the index file at path, as they lie in its bundle's stream.
ContentOf(mgr, path) ==
    LET f == CHOOSE f \in {mgr.index.files[k] : k \in 1..Len(mgr.index.files)} :
                f.path = path
    IN  SubSeq(Content(Len(IndexPaths)), f.offset + 1, f.offset + f.size)

\* The candidates in the index, by position in the candidate list.
Existing(mgr, paths) == {i \in 1..Len(paths) : InIndex(mgr, paths[i])}

FirstOf(S) == CHOOSE i \in S : \A j \in S : i <= j

\* C4: GetFile returns the content of the first candidate that exists in the
\* index (a success is never another candidate's content), and it fails with
\* FileNotFound exactly when no candidate exists in the index.
C4_FirstExistingCandidate ==
    (mc.state = "done" /\ mc.op = "GetFile" /\ mc.err /= "panic")
    => LET ex == Existing(m, mc.paths)
       IN  /\ mc.err = "nil" =>
                /\ ex /= {}
                /\ mc.used = mc.paths[FirstOf(ex)]
                /\ mc.data = ContentOf(m, mc.paths[FirstOf(ex)])
           /\ mc.err \in {"file not found", "fs.ErrNotExist"} <=> ex = {}

\* The candidate list the resolver is to give for a data/ path: one candidate
\* per configured language, in order.
Candidates(languages, filename) ==
    [i \in 1..Len(languages) |->
        IF languages[i] = English
        THEN <<100, 97, 116, 97, 47>> \o filename
        ELSE <<100, 97, 116, 97, 47>> \o ToLower(languages[i]) \o <<47>> \o filename]

\* C5 as stated: the data/ prefix is recognised whatever its case.
C5_ResolveAnyCase ==
    mc.state = "done"
    => mc.paths = IF HasPrefix(ToLower(mc.path), <<100, 97, 116, 97, 47>>)
                  THEN Candidates(m.languages, SubSeq(mc.path, 6, Len(mc.path)))
                  ELSE <<mc.path>>

\* C5 (amended): resolvePaths returns [path] unchanged unless path starts with
\* exactly "Data/" or "data/"; then it strips the prefix and returns one
\* candidate per configured language, in order: data/<filename> for English,
\* data/<lowercase language>/<filename> for any other language.
C5_ResolveDataPrefix ==
    mc.state = "done"
    => mc.paths = IF \/ HasPrefix(mc.path, <<100, 97, 116, 97, 47>>)
                     \/ HasPrefix(mc.path, <<68, 97, 116, 97, 47>>)
                  THEN Candidates(m.languages, SubSeq(mc.path, 6, Len(mc.path)))
                  ELSE <<mc.path>>

\* Languages [French, English] and Data/t give [data/french/t, data/t].
C5_Witness ==
    /\ mc.state = "done"
    /\ m.languages = <<French, English>>
    /\ mc.path = <<68, 97, 116, 97, 47, 116>>
    /\ mc.paths = << <<100, 97, 116, 97, 47, 102, 114, 101, 110, 99, 104, 47, 116>>,
                     <<100, 97, 116, 97, 47, 116>> >>

\* C6: when the variant of every configured non-English language is absent
\* from the index and the English base file is present (and readable),
\* FileExists is true and GetFile returns the base file's bytes without error.
C6_FallsBackToEnglish ==
    (/\ mc.state = "done"
     /\ HasPrefix(mc.path, StrDataLower)
     /\ \E i \in 1..Len(m.languages) : m.languages[i] /= English
     /\ LET filename == TrimPrefix(mc.path, StrDataLower)
        IN  /\ \A i \in 1..Len(m.languages) :
                    m.languages[i] /= English =>
                        ~InIndex(m, StrDataLower \o ToLower(m.languages[i])
                                        \o StrSlash \o filename)
            /\ InIndex(m, StrDataLower \o filename)
            /\ readFileFromBundle(m, cache,
                    m.index.files[findFileInIndex(m, StrDataLower \o filename)]).err = "nil")
    => /\ mc.op = "FileExists" => mc.exists
       /\ mc.op = "GetFile" =>
            /\ mc.err = "nil"
            /\ mc.data = ContentOf(m, StrDataLower \o TrimPrefix(mc.path, StrDataLower))

-----------------------------------------------------------------------------
(* DAT decoder: bytes and field sizes *)

\* A u32 of small value as 4 little-endian bytes.
U32LE(v) == <<v % 256, (v \div 256) % 256, (v \div 65536) % 256, (v \div 16777216) % 256>>

\* Bytes [off, off+n) of data (off counted from 0), as far as data reaches.
Slice(data, off, n) == SubSeq(data, off + 1, Min(off + n, Len(data)))

\* binary.LittleEndian.Uint32 as a number; values of 2^31 and more are all
\* read as 2^31 - 1 (they are only ever compared with small bounds, and
\* sentinels are compared as bytes).
U32Val(bs) ==
    IF bs[4] >= 128 THEN 2147483647
    ELSE bs[1] + 256 * bs[2] + 65536 * bs[3] + 16777216 * bs[4]

Sentinel32 == <<254, 254, 254, 254>>

Sentinel64 == <<254, 254, 254, 254, 254, 254, 254, 254>>

BoundaryMarker == <<187, 187, 187, 187, 187, 187, 187, 187>>

MinDATFileSize == 12

MaxRowCount == 10000000

MinOffsetForArraysAndStrings == 8

ElementSize64BitForeignRow == 16

MaxReasonableForeignKeyIndex == 100000000

DefaultMaxStringLength == 65536

DefaultMaxArrayCount == 65536

\* FieldType.Size(width)
Size(ft, width) ==
    CASE ft = "bool" -> 1
      [] ft \in {"i16", "u16"} -> 2
      [] ft \in {"i32", "u32", "f32"} -> 4
      [] ft \in {"i64", "u64", "f64"} -> 8
      [] ft = "row" -> 8
      [] ft = "foreignrow" -> 16
      [] ft = "enumrow" -> 4
      [] ft = "string" -> 8
      [] ft = "longid" -> IF width = 32 THEN 8 ELSE 16
      [] ft = "array" -> 16
      [] OTHER -> 0

\* WidthForFilename, by the file's extension.
WidthForFilename(ext) ==
    IF ext \in {".dat", ".datl"} THEN 32
    ELSE IF ext \in {".dat64", ".datl64", ".datc64", ".datc"} THEN 64
    ELSE 32

RECURSIVE CalculateRowSizeFrom(_, _, _)
CalculateRowSizeFrom(columns, width, i) ==
    IF i > Len(columns) THEN 0
    ELSE (IF columns[i].array THEN Size("array", width) ELSE Size(columns[i].type, width))
         + CalculateRowSizeFrom(columns, width, i + 1)

CalculateRowSize(schema, width) == CalculateRowSizeFrom(schema.Columns, width, 1)

calculateFieldSize(width, column) ==
    IF column.array THEN Size("array", width)
    ELSE Size(column.type, width) * (IF column.interval THEN 2 ELSE 1)

\* bytes.Index(data[from:], BoundaryMarker) + from, -1 when there is none.
RECURSIVE IndexOfMarker(_, _)
IndexOfMarker(data, from) ==
    IF from + 8 > Len(data) THEN -1
    ELSE IF Slice(data, from, 8) = BoundaryMarker THEN from
    ELSE IndexOfMarker(data, from + 1)

\* Where the search resumes after a run that is not aligned: past the whole
\* run, which is not what the code does.
NextFromPastRun(idx) == idx + Len(BoundaryMarker)

\* fromIndex = idx + 1
NextFrom(idx) == idx + 1

RECURSIVE findAlignedFrom(_, _, _)
findAlignedFrom(data, rowCount, fromIndex) ==
    LET idx == IndexOfMarker(data, fromIndex)
    IN  IF idx = -1 THEN -1
        ELSE IF GoMod(idx, rowCount) = 0 THEN idx
        ELSE findAlignedFrom(data, rowCount, NextFrom(idx))

findAlignedBoundaryMarker(data, rowCount) ==
    IF rowCount = 0 THEN IndexOfMarker(data, 0)
    ELSE findAlignedFrom(data, rowCount, 0)

-----------------------------------------------------------------------------
(* DAT decoder: field readers.  A result is [err, v]; err = "nil" on success *)

Ok(v) == [err |-> "nil", v |-> v]

Fail(err) == [err |-> err, v |-> <<>>]

Null == [kind |-> "null"]

\* ReadString: the UTF-16 code units from offset up to the terminator.
\* The length test made after each append, on the count of code units so far.
ExceedsCountingUnits(count, maxStringLength) == count > maxStringLength

Exceeds(count, maxStringLength) == count * 2 > maxStringLength

RECURSIVE readCodeUnits(_, _, _, _)
readCodeUnits(data, i, result, maxStringLength) ==
    IF i >= Len(data) - 1 THEN Ok(result)
    ELSE LET ch == data[i + 1] + 256 * data[i + 2]
         IN  IF ch = 0 THEN Ok(result)
             ELSE IF Exceeds(Len(result) + 1, maxStringLength)
                  THEN Fail("string: exceeds maximum length")
                  ELSE readCodeUnits(data, i + 2, Append(result, ch), maxStringLength)

\* Surrogate pairs are joined into one code point.
RECURSIVE decodeRunes(_, _)
decodeRunes(units, i) ==
    IF i > Len(units) THEN <<>>
    ELSE IF units[i] >= 55296 /\ units[i] <= 56319 /\ i + 1 <= Len(units)
         THEN <<65536 + (units[i] - 55296) * 1024 + ((units[i + 1] - 56320) % 65536)>>
              \o decodeRunes(units, i + 2)
         ELSE <<units[i]>> \o decodeRunes(units, i + 1)

\* string(runes): a rune that is no valid code point is encoded as U+FFFD.
StringOfRunes(runes) ==
    [i \in 1..Len(runes) |->
        IF (runes[i] >= 55296 /\ runes[i] <= 57343) \/ runes[i] > 1114111
        THEN 65533 ELSE runes[i]]

ReadString(parser, dynamicData, offsetBytes) ==
    LET offset == U32Val(offsetBytes)
    IN  IF offset = 0 THEN Ok([kind |-> "string", s |-> <<>>])
        ELSE IF offsetBytes = Sentinel32 THEN Ok([kind |-> "string", s |-> <<>>])
        ELSE IF offset < MinOffsetForArraysAndStrings THEN Ok([kind |-> "string", s |-> <<>>])
        ELSE IF offset >= Len(dynamicData) THEN Fail("string: offset exceeds dynamic data size")
        ELSE LET units == readCodeUnits(Slice(dynamicData, offset, Len(dynamicData)), 0,
                                        <<>>, parser.options.MaxStringLength)
             IN  IF units.err /= "nil" THEN units
                 ELSE Ok([kind |-> "string", s |-> StringOfRunes(decodeRunes(units.v, 1))])

\* isValidForeignKeyValue without its upper bound on the index.
isValidForeignKeyValueNoUpperBound(valueBytes) ==
    IF valueBytes = Sentinel32 \/ valueBytes = <<0, 0, 0, 0>> THEN FALSE
    ELSE TRUE

isValidForeignKeyValue(valueBytes) ==
    IF valueBytes = Sentinel32 \/ valueBytes = <<0, 0, 0, 0>> THEN FALSE
    ELSE U32Val(valueBytes) <= MaxReasonableForeignKeyIndex

readScalarField(parser, data, column, dynamicData) ==
    LET requiredBytes == Size(column.type, parser.width)
    IN  IF Len(data) < requiredBytes THEN Fail("insufficient data")
        ELSE CASE column.type = "bool" -> Ok([kind |-> "bool", v |-> data[1] /= 0])
               [] column.type \in {"i16", "u16", "i32", "u32", "i64", "u64", "f32", "f64"} ->
                    Ok([kind |-> column.type, bytes |-> Slice(data, 0, requiredBytes)])
               [] column.type = "string" -> ReadString(parser, dynamicData, Slice(data, 0, 4))
               [] column.type \in {"row", "foreignrow", "enumrow"} ->
                    IF Slice(data, 0, 4) = Sentinel32 THEN Ok(Null)
                    ELSE Ok([kind |-> "ref", bytes |-> Slice(data, 0, 4)])
               [] column.type = "longid" ->
                    IF parser.width = 32
                    THEN IF Slice(data, 0, 8) = Sentinel64 THEN Ok(Null)
                         ELSE Ok([kind |-> "longid", bytes |-> Slice(data, 0, 8)])
                    ELSE IF Slice(data, 0, 8) = Sentinel64 /\ Slice(data, 8, 8) = Sentinel64
                         THEN Ok(Null)
                         ELSE IF Slice(data, 8, 8) /= <<0, 0, 0, 0, 0, 0, 0, 0>>
                         THEN Fail("unexpected value in high half of LongID")
                         ELSE Ok([kind |-> "longid", bytes |-> Slice(data, 0, 8)])
               [] OTHER -> Fail("unsupported type")

EmptyArray(elementType) == [kind |-> "array", of |-> elementType, elems |-> <<>>]

RECURSIVE readStringArrayFrom(_, _, _, _, _)
readStringArrayFrom(parser, data, dynamicData, count, i) ==
    IF i >= count THEN Ok(<<>>)
    ELSE LET str == ReadString(parser, dynamicData, Slice(data, i * 4, 4))
         IN  IF str.err /= "nil" THEN Fail("string array: reading string")
             ELSE LET rest == readStringArrayFrom(parser, data, dynamicData, count, i + 1)
                  IN  IF rest.err /= "nil" THEN rest ELSE Ok(<<str.v>> \o rest.v)

readStringArray(parser, data, dynamicData, count) ==
    IF count * Size("u32", parser.width) > Len(data)
    THEN Fail("string array: offsets exceed available data")
    ELSE readStringArrayFrom(parser, data, dynamicData, count, 0)

\* readTypedArray: element i is read at i * stride of data.
readTypedArray(parser, data, count, elementType) ==
    IF elementType \in {"row", "foreignrow", "enumrow"}
    THEN LET elementStride == Size(elementType, parser.width)
         IN  IF \E i \in 0..(count - 1) : i * elementStride + 4 > Len(data)
             THEN Fail("array: element exceeds data bounds")
             ELSE Ok([i \in 1..count |->
                        LET value == Slice(data, (i - 1) * elementStride, 4)
                        IN  IF isValidForeignKeyValue(value)
                            THEN [kind |-> "ref", v |-> U32Val(value)] ELSE Null])
    ELSE IF elementType \in {"bool", "i16", "u16", "i32", "u32", "i64", "u64", "f32", "f64"}
    THEN LET elementSize == Size(elementType, parser.width)
         IN  IF count * elementSize > Len(data) THEN Fail("panic")
             ELSE Ok([i \in 1..count |->
                        [kind |-> elementType,
                         bytes |-> Slice(data, (i - 1) * elementSize, elementSize)]])
    ELSE Fail("array: unsupported element type")

ReadArray(parser, dynamicData, offsetBytes, countBytes, elementType) ==
    LET offset == U32Val(offsetBytes)
        count == U32Val(countBytes)
    IN  IF offset = 0 \/ count = 0 THEN Ok(EmptyArray(elementType))
        ELSE IF offsetBytes = Sentinel32 THEN Ok(EmptyArray(elementType))
        ELSE IF offset < MinOffsetForArraysAndStrings THEN Fail("array: offset too small")
        ELSE IF offset >= Len(dynamicData) THEN Fail("array: offset exceeds dynamic data size")
        ELSE
        LET data == Slice(dynamicData, offset, Len(dynamicData))
            elementSize == IF parser.width = 64 /\ elementType \in {"foreignrow", "enumrow"}
                           THEN ElementSize64BitForeignRow
                           ELSE Size(elementType, parser.width)
        IN  IF elementType = "string"
            THEN LET strs == readStringArray(parser, data, dynamicData, count)
                 IN  IF strs.err /= "nil" THEN strs
                     ELSE Ok([kind |-> "array", of |-> elementType, elems |-> strs.v])
            ELSE IF count * elementSize > Len(data)
            THEN Fail("array: data exceeds available data")
            ELSE LET elems == readTypedArray(parser, Slice(data, 0, count * elementSize),
                                             count, elementType)
                 IN  IF elems.err /= "nil" THEN elems
                     ELSE Ok([kind |-> "array", of |-> elementType, elems |-> elems.v])

validateArraySize(parser, countBytes) ==
    IF U32Val(countBytes) > parser.options.MaxArrayCount
    THEN "array count exceeds maximum" ELSE "nil"

readArrayField(parser, data, column, dynamicData) ==
    IF Len(data) < Size("array", parser.width) THEN Fail("array field: insufficient data")
    ELSE LET count == Slice(data, 0, 4)
             offset == IF parser.width = 64 THEN Slice(data, 8, 4) ELSE Slice(data, 4, 4)
         IN  IF validateArraySize(parser, count) /= "nil"
             THEN Fail(validateArraySize(parser, count))
             ELSE ReadArray(parser, dynamicData, offset, count, column.type)

parseFieldValue(parser, fieldData, column, dynamicData) ==
    IF column.array THEN readArrayField(parser, fieldData, column, dynamicData)
    ELSE readScalarField(parser, fieldData, column, dynamicData)

-----------------------------------------------------------------------------
(* DAT decoder: rows and the file header *)

resolveFieldName(column, index) == column.name

\* parseRow's loop over the schema's columns from column k on.  stop tells how
\* the loop ended: "end" (all columns read), "slot" (the column's slot does not
\* fit the row) or "error" (parseFieldValue returned an error).
RECURSIVE parseRowLoop(_, _, _, _, _, _, _)
parseRowLoop(parser, rowData, dynamicData, columns, k, currentOffset, fields) ==
    IF k > Len(columns) THEN [Fields |-> fields, stop |-> "end"]
    ELSE
    LET column == columns[k]
        fieldSize == calculateFieldSize(parser.width, column)
        fieldStart == currentOffset
        newOffset == currentOffset + fieldSize
        fieldData == Slice(rowData, fieldStart, fieldSize)
    IN  IF fieldStart >= Len(rowData) \/ newOffset > Len(rowData)
        THEN [Fields |-> fields, stop |-> "slot"]
        ELSE LET value == parseFieldValue(parser, fieldData, column, dynamicData)
             IN  IF value.err /= "nil"
                 THEN [Fields |-> fields, stop |-> "error"]
                 ELSE parseRowLoop(parser, rowData, dynamicData, columns, k + 1, newOffset,
                                   Append(fields, [name |-> resolveFieldName(column, k - 1),
                                                   value |-> value.v]))

\* A count that includes the column at which the walk stopped, which is not
\* what the code counts.
fieldsParsedWithStop(walk) == Len(walk.Fields) + (IF walk.stop = "end" THEN 0 ELSE 1)

\* fieldsParsed++ comes after both breaks: one for every field stored.
fieldsParsed(walk) == Len(walk.Fields)

\* parseRow never returns an error: its result is always a row.
parseRow(parser, index, rowData, dynamicData, schema) ==
    LET walk == parseRowLoop(parser, rowData, dynamicData, schema.Columns, 1, 0, <<>>)
    IN  [Index |-> index, Fields |-> walk.Fields, FieldsParsed |-> fieldsParsed(walk)]

parseDATStructure(data) ==
    LET rowCount == U32Val(Slice(data, 0, 4))
        boundaryIndex == findAlignedBoundaryMarker(Slice(data, 4, Len(data)), rowCount)
    IN  IF rowCount > MaxRowCount THEN [err |-> "row count exceeds reasonable limit"]
        ELSE IF boundaryIndex = -1 THEN [err |-> "aligned boundary marker not found"]
        ELSE [err |-> "nil", RowCount |-> rowCount,
              FixedData |-> Slice(data, 4, boundaryIndex),
              DynamicData |-> Slice(data, boundaryIndex + 4, Len(data))]

\* The boundary search without the alignment requirement and without the
\* remainder and size checks.
BoundaryAndRowSizeFirstMarker(data, datFile, schemaRowSize) ==
    LET pos == IndexOfMarker(Slice(data, 4, Len(data)), 0)
    IN  IF pos = -1 THEN [err |-> "aligned boundary marker not found in .datc64 file"]
        ELSE [err |-> "nil", actualBoundaryPos |-> pos + 4,
              rowSize |-> IF datFile.RowCount > 0 THEN GoDiv(pos, datFile.RowCount)
                          ELSE schemaRowSize]

\* ParseDATFileWithFilename from the second boundary search to the size check:
\* the boundary position and the row size rows are sliced with.
BoundaryAndRowSize(data, datFile, schemaRowSize) ==
    LET pos == findAlignedBoundaryMarker(Slice(data, 4, Len(data)), datFile.RowCount)
        actualFixedDataSize == pos
        rowSize == IF datFile.RowCount > 0 THEN GoDiv(actualFixedDataSize, datFile.RowCount)
                   ELSE schemaRowSize
    IN  IF pos = -1 THEN [err |-> "aligned boundary marker not found in .datc64 file"]
        ELSE IF datFile.RowCount > 0 /\ GoMod(actualFixedDataSize, datFile.RowCount) /= 0
        THEN [err |-> "boundary position does not align with row count"]
        ELSE IF Len(datFile.FixedData) /= datFile.RowCount * rowSize
        THEN [err |-> "fixed data size mismatch"]
        ELSE [err |-> "nil", actualBoundaryPos |-> pos + 4, rowSize |-> rowSize]

NewDATParser ==
    [width |-> 0,
     options |-> [MaxStringLength |-> DefaultMaxStringLength,
                  MaxArrayCount |-> DefaultMaxArrayCount]]

-----------------------------------------------------------------------------
(* DAT decoder: the files and schemas explored *)

MaxRows == 2

Col(name, type, array, interval) ==
    [name |-> name, type |-> type, array |-> array, interval |-> interval]

Schemas ==
    { [Name |-> "IntString", Columns |-> <<Col("a", "i32", FALSE, FALSE),
                                           Col("s", "string", FALSE, FALSE)>>],
      [Name |-> "IntLongID", Columns |-> <<Col("a", "i32", FALSE, FALSE),
                                           Col("k", "longid", FALSE, FALSE)>>],
      [Name |-> "IntArray", Columns |-> <<Col("a", "i32", FALSE, FALSE),
                                          Col("xs", "i32", TRUE, FALSE)>>] }

\* The dynamic section: the marker, the string "hi" at offset 8 and four u32
\* at offset 14.
Heap ==
    BoundaryMarker \o <<104, 0, 105, 0, 0, 0>>
    \o <<1, 0, 0, 0>> \o Sentinel32 \o <<0, 0, 0, 0>> \o <<205, 205, 205, 205>>

OffsetHi == Len(BoundaryMarker)

OffsetInts == OffsetHi + 6

OffsetOutside == Len(Heap) + 170

\* What a row's second column holds: a value, the null sentinel, or something
\* that cannot be decoded; "stray" is a row with a run of 8 marker bytes at
\* its offset 1; "edge" is an array slot with the sentinel as its count and an
\* offset inside the dynamic section, a longid with the sentinel as its high
\* half only, a string offset below the first usable one.
Variants == {"ok", "null", "bad", "stray", "edge"}

SlotBytes(column, variant) ==
    IF column.array
    THEN CASE variant = "ok" -> U32LE(2) \o Zeros(4) \o U32LE(OffsetInts) \o Zeros(4)
           [] variant = "null" -> Zeros(16)
           [] variant = "edge" -> Sentinel64 \o U32LE(OffsetInts) \o Zeros(4)
           [] OTHER -> U32LE(2) \o Zeros(4) \o U32LE(OffsetOutside) \o Zeros(4)
    ELSE IF column.type = "string"
    THEN CASE variant = "ok" -> U32LE(OffsetHi) \o Zeros(4)
           [] variant = "null" -> Sentinel64
           [] variant = "edge" -> U32LE(4) \o Zeros(4)
           [] OTHER -> U32LE(OffsetOutside) \o Zeros(4)
    ELSE CASE variant = "ok" -> U32LE(5) \o Zeros(12)
           [] variant = "null" -> Sentinel64 \o Sentinel64
           [] variant = "edge" -> U32LE(5) \o Zeros(4) \o Sentinel64
           [] OTHER -> U32LE(5) \o Zeros(4) \o U32LE(1) \o Zeros(4)

\* bs cut or zero-padded to n bytes.
Resize(bs, n) == IF Len(bs) >= n THEN SubSeq(bs, 1, n) ELSE bs \o Zeros(n - Len(bs))

RowBytes(schema, variant, size) ==
    IF variant = "stray"
    THEN Resize(<<7>> \o BoundaryMarker, size)
    ELSE Resize(U32LE(7) \o SlotBytes(schema.Columns[2], variant), size)

RECURSIVE RowsBytes(_, _, _, _)
RowsBytes(schema, variants, size, i) ==
    IF i > Len(variants) THEN <<>>
    ELSE RowBytes(schema, variants[i], size) \o RowsBytes(schema, variants, size, i + 1)

\* The file's rows are as wide as the schema says for 64-bit files, or one
\* u32 narrower or wider.
RowDeltas == {-4, 0, 4}

\* The header's row count is the number of rows written, or one more.
HeaderExtras == {0, 1}

DatFileBytes(schema, variants, delta, extra) ==
    U32LE(Len(variants) + extra)
    \o RowsBytes(schema, variants, CalculateRowSize(schema, 64) + delta, 1)
    \o Heap

Extensions == {".datc64", ".dat"}

NoTable == [RowCount |-> -1]

-----------------------------------------------------------------------------
(* DAT decoder: one call of ParseDATFileWithFilename, row by row *)

DatInit ==
    \E schema \in Schemas, n \in 0..MaxRows, delta \in RowDeltas, ext \in Extensions :
        \E variants \in [1..n -> Variants], extra \in HeaderExtras :
            dat = [state |-> "ready", data |-> DatFileBytes(schema, variants, delta, extra),
                   ext |-> ext, schema |-> schema, parser |-> NewDATParser,
                   RowCount |-> 0, FixedData |-> <<>>, DynamicData |-> <<>>,
                   actualBoundaryPos |-> 0, rowSize |-> 0, rows |-> <<>>,
                   err |-> "nil", table |-> NoTable,
                   cancelled |-> FALSE, cancelledAt |-> -1]

FailedCall(d, err) == [d EXCEPT !.state = "done", !.err = err]

Failed(err) == FailedCall(dat, err)

\* ParseDATFileWithFilename up to the row loop, for the call d and the parser
\* as it is once p.width is assigned.
HeaderOf(d, parser) ==
    LET datFile == parseDATStructure(d.data)
        schemaRowSize == CalculateRowSize(d.schema, parser.width)
    IN  IF Len(d.data) < MinDATFileSize
        THEN FailedCall(d, "DAT file too small")
        ELSE IF datFile.err /= "nil"
        THEN FailedCall(d, datFile.err)
        ELSE IF schemaRowSize = 0
        THEN [FailedCall(d, "calculated row size is zero") EXCEPT !.parser = parser]
        ELSE LET br == BoundaryAndRowSize(d.data, datFile, schemaRowSize)
             IN  IF br.err /= "nil"
                 THEN [FailedCall(d, br.err) EXCEPT !.parser = parser]
                 ELSE [d EXCEPT !.state = "rows", !.parser = parser,
                                !.RowCount = datFile.RowCount,
                                !.FixedData = datFile.FixedData,
                                !.DynamicData = datFile.DynamicData,
                                !.actualBoundaryPos = br.actualBoundaryPos,
                                !.rowSize = br.rowSize]

ParseDATFileWithFilename ==
    /\ dat.state = "ready"
    /\ dat' = HeaderOf(dat, [dat.parser EXCEPT !.width = WidthForFilename(dat.ext)])
    /\ UNCHANGED notDat

RowData(d, i) == Slice(d.FixedData, i * d.rowSize, d.rowSize)

\* The caller's context is cancelled while the call runs; cancelledAt keeps
\* the number of rows decoded by then.
Cancel ==
    /\ dat.state \in {"ready", "rows"}
    /\ ~dat.cancelled
    /\ dat' = [dat EXCEPT !.cancelled = TRUE, !.cancelledAt = Len(dat.rows)]
    /\ UNCHANGED notDat

\* The select on ctx.Done() at the head of iteration i of the row loop.
DoneOnlyBeforeFirstRow(d, i) == d.cancelled /\ i = 0

Done(d, i) == d.cancelled

\* One iteration of the row loop.
ParseNextRow ==
    /\ dat.state = "rows"
    /\ Len(dat.rows) < dat.RowCount
    /\ LET i == Len(dat.rows)
       IN  IF Done(dat, i)
           THEN dat' = Failed("context canceled")
           ELSE dat' = [dat EXCEPT !.rows = Append(@, parseRow(dat.parser, i, RowData(dat, i),
                                                               dat.DynamicData, dat.schema))]
    /\ UNCHANGED notDat

\* The table the call d returns after its loop.
ParsedTable(d) ==
    [RowCount |-> d.RowCount, Rows |-> d.rows,
     FixedDataSize |-> Len(d.FixedData),
     DynamicDataSize |-> Len(d.DynamicData),
     TotalFileSize |-> Len(d.data)]

\* The loop is over: the table is returned.
ParseReturn ==
    /\ dat.state = "rows"
    /\ Len(dat.rows) >= dat.RowCount
    /\ dat' = [dat EXCEPT !.state = "done", !.table = ParsedTable(dat)]
    /\ UNCHANGED notDat

NextDat == ParseDATFileWithFilename \/ Cancel \/ ParseNextRow \/ ParseReturn

InitDat == component = "dat" /\ DatInit /\ BundleIdle /\ MgrIdle /\ IxIdle /\ RestIdle

SpecDat == InitDat /\ [][NextDat]_vars

-----------------------------------------------------------------------------
(* DAT decoder: claims *)

\* How parseRow's walk over row i of the file ended.
RowStop(d, i) ==
    parseRowLoop(d.parser, RowData(d, i), d.DynamicData, d.schema.Columns, 1, 0, <<>>).stop

HardErrorRows(d) == {i \in 0..(d.RowCount - 1) : RowStop(d, i) = "error"}

Succeeded(d) == d.state = "done" /\ d.err = "nil"

\* C7: when some field of some row of the file fails to decode (an offset
\* outside the dynamic section, a malformed longid), the call returns an
\* error and no table.
C7_HardErrorAbortsFile ==
    (component = "dat" /\ dat.state = "done" /\ HardErrorRows(dat) /= {})
    => (dat.err /= "nil" /\ dat.table = NoTable)

-----------------------------------------------------------------------------
(* Path hashes.  A uint64 is its 8 little-endian bytes; arithmetic is mod 2^64 *)

RECURSIVE XorBits(_, _, _)
XorBits(x, y, n) ==
    IF n = 0 THEN 0 ELSE ((x + y) % 2) + 2 * XorBits(x \div 2, y \div 2, n - 1)

Xor64(x, y) ==
    <<XorBits(x[1], y[1], 8), XorBits(x[2], y[2], 8), XorBits(x[3], y[3], 8),
      XorBits(x[4], y[4], 8), XorBits(x[5], y[5], 8), XorBits(x[6], y[6], 8),
      XorBits(x[7], y[7], 8), XorBits(x[8], y[8], 8)>>

\* Sum of x[i] * y[k + 1 - i] for i = 1..k: column k of the product.
RECURSIVE MulColumn(_, _, _, _)
MulColumn(x, y, k, i) ==
    IF i > k THEN 0 ELSE x[i] * y[k + 1 - i] + MulColumn(x, y, k, i + 1)

RECURSIVE MulFrom(_, _, _, _)
MulFrom(x, y, k, carry) ==
    IF k > 8 THEN <<>>
    ELSE LET sum == carry + MulColumn(x, y, k, 1)
         IN  <<sum % 256>> \o MulFrom(x, y, k + 1, sum \div 256)

\* Both operands are uint64s, computed before they are multiplied.
Mul64(x, y) == IF Len(x) = 8 /\ Len(y) = 8 THEN MulFrom(x, y, 1, 0) ELSE <<>>

RECURSIVE Pow2(_)
Pow2(n) == IF n = 0 THEN 1 ELSE 2 * Pow2(n - 1)

\* Byte i of x >> bits.
ShrByte(x, bits, i) ==
    LET q == bits \div 8
        rest == bits % 8
        at(j) == IF j > 8 THEN 0 ELSE x[j]
    IN  ((at(i + q) \div Pow2(rest)) + at(i + q + 1) * Pow2(8 - rest)) % 256

\* x >> bits
Shr64(x, bits) ==
    <<ShrByte(x, bits, 1), ShrByte(x, bits, 2), ShrByte(x, bits, 3), ShrByte(x, bits, 4),
      ShrByte(x, bits, 5), ShrByte(x, bits, 6), ShrByte(x, bits, 7), ShrByte(x, bits, 8)>>

U64(n) == U32LE(n) \o <<0, 0, 0, 0>>

\* byte << (8 * j)
ByteAt(byte, j) == [i \in 1..8 |-> IF i = j + 1 THEN byte ELSE 0]

MurmurM == <<149, 233, 209, 91, 147, 167, 164, 198>>     \* 0xc6a4a7935bd1e995

MurmurR == 47

MurmurSeed == <<63, 179, 55, 19, 0, 0, 0, 0>>            \* 0x1337b33f

\* h ^= h >> r
XorShift(h) == Xor64(h, Shr64(h, MurmurR))

RECURSIVE MurmurChunks(_, _, _, _)
MurmurChunks(data, i, alignedLength, h) ==
    IF i >= alignedLength \/ Len(h) /= 8 THEN h
    ELSE MurmurChunks(data, i + 8, alignedLength,
                      Mul64(Xor64(h, Mul64(XorShift(Mul64(SubSeq(data, i + 1, i + 8),
                                                          MurmurM)),
                                           MurmurM)),
                            MurmurM))

\* The switch with fallthrough over the last remainder bytes.
RECURSIVE MurmurTail(_, _, _, _)
MurmurTail(data, alignedLength, j, h) ==
    IF j = 0 \/ Len(h) /= 8 THEN h
    ELSE MurmurTail(data, alignedLength, j - 1,
                    Xor64(h, ByteAt(data[alignedLength + j], j - 1)))

\* The final avalanche, a statement at a time, each on the value the one
\* before it has left in h: h ^= h >> r; h *= m; h ^= h >> r.
MurmurMix3(h) == IF Len(h) /= 8 THEN h ELSE XorShift(h)

MurmurMix2(h) == IF Len(h) /= 8 THEN h ELSE MurmurMix3(Mul64(h, MurmurM))

MurmurMix1(h) == IF Len(h) /= 8 THEN h ELSE MurmurMix2(XorShift(h))

\* h *= m at the end of the switch over the remainder bytes.
MurmurAfterTail(h) == IF Len(h) /= 8 THEN h ELSE MurmurMix1(Mul64(h, MurmurM))

\* The tail bytes, when there are any, and the final avalanche.
MurmurFinish(data, alignedLength, remainder, h) ==
    IF Len(h) /= 8 THEN h
    ELSE IF remainder = 0 THEN MurmurMix1(h)
    ELSE MurmurAfterTail(MurmurTail(data, alignedLength, remainder, h))

MurmurHash64A(data, seed) ==
    MurmurFinish(data, Len(data) - (Len(data) % 8), Len(data) % 8,
                 MurmurChunks(data, 0, Len(data) - (Len(data) % 8),
                              Xor64(seed, Mul64(U64(Len(data)), MurmurM))))

\* The hash of the path in the case it was given in.
MurmurHashPathAsGiven(path) == MurmurHash64A(path, MurmurSeed)

MurmurHashPath(path) == MurmurHash64A(ToLower(path), MurmurSeed)

FnvBasis == <<37, 35, 34, 132, 228, 156, 242, 203>>      \* 0xcbf29ce484222325

FnvPrime == <<179, 1, 0, 0, 0, 1, 0, 0>>                 \* 0x100000001b3

RECURSIVE FnvLoop(_, _, _)
FnvLoop(data, i, hash) ==
    IF i > Len(data) \/ Len(hash) /= 8 THEN hash
    ELSE FnvLoop(data, i + 1, Mul64(Xor64(hash, ByteAt(data[i], 0)), FnvPrime))

FNVHashPath(path) == FnvLoop(ToLower(path) \o <<43, 43>>, 1, FnvBasis)

-----------------------------------------------------------------------------
(* Index decoder: OpenBundle and ReadAt over bytes held in memory *)

\* An int64 as a number: exact when it fits 32 bits, else the nearest bound.
I64Val(bs) ==
    IF SubSeq(bs, 5, 8) = <<0, 0, 0, 0>> /\ bs[4] < 128 THEN U32Val(SubSeq(bs, 1, 4))
    ELSE IF SubSeq(bs, 5, 8) = <<255, 255, 255, 255>> /\ bs[4] >= 128
    THEN (bs[1] + 256 * bs[2] + 65536 * bs[3] + 16777216 * (bs[4] - 128)) - 2147483647 - 1
    ELSE IF bs[8] >= 128 THEN -2147483647 ELSE 2147483647

\* binary.Read of the head and of the block sizes from the bytes of a
\* bytes.Reader; the rest of the bytes is the payload.
ReadBundleHead(bytes) ==
    IF Len(bytes) < HeaderSize THEN [state |-> "error", err |-> "failed to read bundle head"]
    ELSE LET count == U32Val(Slice(bytes, 36, 4))
         IN  IF count > Len(bytes) \/ HeaderSize + 4 * count > Len(bytes)
             THEN [state |-> "error", err |-> "failed to read bundle block sizes"]
             ELSE [state |-> "head", kind |-> "File",
                   UncompressedSize2 |-> I64Val(Slice(bytes, 20, 8)),
                   UncompressedBlockGranularity |-> U32Val(Slice(bytes, 40, 4)),
                   BlockCount |-> count,
                   blockSizes |-> [i \in 1..count |->
                                     U32Val(Slice(bytes, HeaderSize + 4 * (i - 1), 4))],
                   payload |-> Slice(bytes, HeaderSize + 4 * count, Len(bytes))]

OpenBundleBytes(bytes) ==
    LET head == ReadBundleHead(bytes)
    IN  IF head.state = "error" THEN head ELSE OpenBundleResult(head)

\* make([]byte, bundle.Size()) and ReadAt(_, 0): the whole stream.
ReadWholeBundle(bd) ==
    IF bd.size < 0 THEN [err |-> "panic", p |-> <<>>]
    ELSE LET res == ReadAtResult(bd, bd.size, 0)
         IN  [err |-> res.err, p |-> res.p]

\* The bytes of a bundle that holds content in blocks of gran bytes.
BundleBytes(content, gran) ==
    LET nblocks == (Len(content) + gran - 1) \div gran
        blks == [i \in 1..nblocks |-> GoozCompress(Chunk(content, gran, i - 1))]
    IN  U32LE(Len(content)) \o U32LE(Len(Concat(blks))) \o Zeros(12)
        \o U64(Len(content)) \o U64(Len(Concat(blks)))
        \o U32LE(nblocks) \o U32LE(gran) \o Zeros(16)
        \o Concat([i \in 1..nblocks |-> U32LE(Len(blks[i]))])
        \o Concat(blks)

-----------------------------------------------------------------------------
(* Index decoder: loadBundleIndexFromRawData *)

IxPanic(msg) == [outcome |-> "panic", err |-> msg]

IxError(msg) == [outcome |-> "error", err |-> msg]

\* binary.LittleEndian.Uint32(indexData[p:]) is possible.
CanRead(indexData, p, n) == p + n <= Len(indexData)

\* The bundle list from position p on.  A name that reaches past the end of
\* the data makes the slice expression panic, or, where the capacity of the
\* data allows the slice, the next read at p > len(indexData).
RECURSIVE ReadBundles(_, _, _, _)
ReadBundles(indexData, p, left, bundles) ==
    IF left = 0 THEN [outcome |-> "ok", p |-> p, bundles |-> bundles]
    ELSE IF ~CanRead(indexData, p, 4) THEN IxPanic("index out of range")
    ELSE LET nameLen == U32Val(Slice(indexData, p, 4))
         IN  IF nameLen > Len(indexData) \/ ~CanRead(indexData, p + 4, nameLen)
             THEN IxPanic("slice bounds out of range")
             ELSE ReadBundles(indexData, p + 4 + nameLen + 4, left - 1,
                              Append(bundles, Slice(indexData, p + 4, nameLen)))

\* The file table: files in table order and filemap as the list of their
\* hashes (filemap[hash] is the position of hash in it).
RECURSIVE ReadFiles(_, _, _, _, _)
ReadFiles(indexData, p, left, files, filemap) ==
    IF left = 0 THEN [outcome |-> "ok", p |-> p, files |-> files, filemap |-> filemap]
    ELSE IF ~CanRead(indexData, p, 20) THEN IxPanic("index out of range")
    ELSE LET hash == Slice(indexData, p, 8)
             file == [path |-> <<>>,
                      bundleId |-> U32Val(Slice(indexData, p + 8, 4)),
                      offset |-> U32Val(Slice(indexData, p + 12, 4)),
                      size |-> U32Val(Slice(indexData, p + 16, 4))]
         IN  IF \E i \in 1..Len(filemap) : filemap[i] = hash
             THEN IxPanic("duplicate filemap hash")
             ELSE ReadFiles(indexData, p + 20, left - 1, Append(files, file),
                            Append(filemap, hash))

RECURSIVE ReadPathreps(_, _, _, _)
ReadPathreps(indexData, p, left, pathmap) ==
    IF left = 0 THEN [outcome |-> "ok", p |-> p, pathmap |-> pathmap]
    ELSE IF ~CanRead(indexData, p, 20) THEN IxPanic("index out of range")
    ELSE LET hash == Slice(indexData, p, 8)
             pr == [hash |-> hash,
                    offset |-> U32Val(Slice(indexData, p + 8, 4)),
                    size |-> U32Val(Slice(indexData, p + 12, 4)),
                    recursiveSize |-> U32Val(Slice(indexData, p + 16, 4))]
         IN  IF \E i \in 1..Len(pathmap) : pathmap[i].hash = hash
             THEN IxPanic("duplicate pathmap hash")
             ELSE ReadPathreps(indexData, p + 20, left - 1, Append(pathmap, pr))

\* readPathspecString: the bytes from p up to a NUL or the end.
RECURSIVE EndOfString(_, _)
EndOfString(data, p) ==
    IF p < Len(data) /\ data[p + 1] /= 0 THEN EndOfString(data, p + 1) ELSE p

RECURSIVE readPathspecLoop(_, _, _, _, _)
readPathspecLoop(data, p, phase, names, output) ==
    IF p >= Len(data) THEN [outcome |-> "ok", output |-> output]
    ELSE IF ~CanRead(data, p, 4) THEN IxPanic("index out of range")
    ELSE LET n == U32Val(Slice(data, p, 4))
         IN  IF n = 0 THEN readPathspecLoop(data, p + 4, 1 - phase, names, output)
             ELSE LET end == EndOfString(data, p + 4)
                      raw == Slice(data, p + 4, end - (p + 4))
                      str == IF n - 1 < Len(names) THEN names[n] \o raw ELSE raw
                  IN  IF phase = 0
                      THEN readPathspecLoop(data, end + 1, phase, Append(names, str), output)
                      ELSE readPathspecLoop(data, end + 1, phase, names, Append(output, str))

readPathspec(data) == readPathspecLoop(data, 0, 1, <<>>, <<>>)

\* Position of hash in filemap, 0 when absent.
Lookup(filemap, hash) ==
    IF \E i \in 1..Len(filemap) : filemap[i] = hash
    THEN CHOOSE i \in 1..Len(filemap) : filemap[i] = hash
    ELSE 0

\* The record a path goes to when the legacy hash is tried first, which is
\* not what the code does.
MatchedLegacyFirst(modern, legacy) == IF legacy /= 0 THEN legacy ELSE modern

\* The record a path goes to, given where its two hashes are in filemap
\* (0 for absent): the modern hash's record, else the legacy hash's.
Matched(modern, legacy) == IF modern /= 0 THEN modern ELSE legacy

\* The body of the loop over a pathrep's paths: modern hash first, then the
\* legacy hash, else the path is skipped.
RECURSIVE AssignPaths(_, _, _, _)
AssignPaths(files, filemap, paths, i) ==
    IF i > Len(paths) THEN files
    ELSE LET modern == Lookup(filemap, MurmurHashPath(paths[i]))
             legacy == Lookup(filemap, FNVHashPath(paths[i]))
             fe == Matched(modern, legacy)
         IN  AssignPaths(IF fe = 0 THEN files ELSE [files EXCEPT ![fe].path = paths[i]],
                         filemap, paths, i + 1)

\* The loop over pathmap, its entries visited in the given order.
RECURSIVE VisitPathreps(_, _, _, _, _, _)
VisitPathreps(files, filemap, pathmap, pathData, order, i) ==
    IF i > Len(order) THEN [outcome |-> "ok", files |-> files]
    ELSE LET pr == pathmap[order[i]]
         IN  IF pr.offset > Len(pathData) \/ pr.size > Len(pathData)
                \/ pr.offset + pr.size > Len(pathData)
             THEN IxPanic("slice bounds out of range")
             ELSE LET paths == readPathspec(Slice(pathData, pr.offset, pr.size))
                  IN  IF paths.outcome /= "ok" THEN paths
                      ELSE VisitPathreps(AssignPaths(files, filemap, paths.output, 1),
                                         filemap, pathmap, pathData, order, i + 1)

\* sort.Slice by path; for a list this short it is an insertion sort.
RECURSIVE InsertByPath(_, _)
InsertByPath(sorted, f) ==
    IF sorted = <<>> THEN <<f>>
    ELSE IF StrLess(f.path, sorted[Len(sorted)].path)
    THEN Append(InsertByPath(SubSeq(sorted, 1, Len(sorted) - 1), f), sorted[Len(sorted)])
    ELSE Append(sorted, f)

RECURSIVE SortFiles(_, _, _)
SortFiles(files, i, sorted) ==
    IF i > Len(files) THEN sorted ELSE SortFiles(files, i + 1, InsertByPath(sorted, files[i]))

\* The orders in which Go may visit a map of n entries.
RECURSIVE Orders(_)
Orders(S) ==
    IF S = {} THEN {<<>>}
    ELSE UNION {{<<x>> \o rest : rest \in Orders(S \ {x})} : x \in S}

\* loadBundleIndexFromRawData in stages, each taking what the stages before it
\* have read; the last stage comes first.

\* The sort and the return.
IndexFromVisited(bundles, visited) ==
    IF visited.outcome /= "ok" THEN visited
    ELSE [outcome |-> "index", err |-> "nil",
          index |-> [bundles |-> bundles, files |-> SortFiles(visited.files, 1, <<>>)]]

\* The loop over pathmap.
IndexFromPathData(bundles, fs, pathmap, pathData, order) ==
    IF pathData.err = "panic" THEN IxPanic("runtime error")
    ELSE IF pathData.err /= "nil" THEN IxError("unable to read pathrep bundle")
    ELSE IndexFromVisited(bundles,
                          VisitPathreps(fs.files, fs.filemap, pathmap, pathData.p,
                                        SelectSeq(order, LAMBDA k : k <= Len(pathmap)), 1))

\* OpenBundle on the rest of the data and the read of the pathrep data.
IndexFromPathrepBundle(bundles, fs, pathmap, pathrepBundle, order) ==
    IF pathrepBundle.state = "error" THEN IxError("unable to read pathrep bundle")
    ELSE IndexFromPathData(bundles, fs, pathmap, ReadWholeBundle(pathrepBundle), order)

IndexFromPathreps(indexData, bundles, fs, ps, order) ==
    IF ps.outcome /= "ok" THEN ps
    ELSE IF ps.p >= Len(indexData) THEN IxError("pathrep bundle offset exceeds data length")
    ELSE IndexFromPathrepBundle(bundles, fs, ps.pathmap,
                                OpenBundleBytes(Slice(indexData, ps.p, Len(indexData))), order)

IndexFromFiles(indexData, bundles, fs, order) ==
    IF fs.outcome /= "ok" THEN fs
    ELSE IF ~CanRead(indexData, fs.p, 4) THEN IxPanic("index out of range")
    ELSE IndexFromPathreps(indexData, bundles, fs,
                           ReadPathreps(indexData, fs.p + 4,
                                        U32Val(Slice(indexData, fs.p, 4)), <<>>), order)

IndexFromBundles(indexData, bs, order) ==
    IF bs.outcome /= "ok" THEN bs
    ELSE IF ~CanRead(indexData, bs.p, 4) THEN IxPanic("index out of range")
    ELSE IndexFromFiles(indexData, bs.bundles,
                        ReadFiles(indexData, bs.p + 4, U32Val(Slice(indexData, bs.p, 4)),
                                  <<>>, <<>>), order)

loadBundleIndexFromRawData(indexData, order) ==
    IF Len(indexData) < 4 THEN IxError("index data too small")
    ELSE IndexFromBundles(indexData,
                          ReadBundles(indexData, 4, U32Val(Slice(indexData, 0, 4)), <<>>),
                          order)

\* The index read from the bytes of the index bundle.
IndexFromIndexData(indexData, order) ==
    IF indexData.err = "panic" THEN IxPanic("runtime error")
    ELSE IF indexData.err /= "nil" THEN IxError("unable to read index bundle")
    ELSE loadBundleIndexFromRawData(indexData.p, order)

\* loadBundleIndex: the data is a bundle holding the index, or the index.
loadBundleIndex(data, order) ==
    IF OpenBundleBytes(data).state = "error" THEN loadBundleIndexFromRawData(data, order)
    ELSE IndexFromIndexData(ReadWholeBundle(OpenBundleBytes(data)), order)

\* LoadIndex wraps the error of loadBundleIndex; a panic passes through it.
LoadIndexResult(data, order) ==
    LET internal == loadBundleIndex(data, order)
    IN  IF internal.outcome = "error" THEN IxError("loading bundle index") ELSE internal

\* sort.Search: the first position (from 0) whose path is not below path.
RECURSIVE SearchFrom(_, _, _)
SearchFrom(files, path, i) ==
    IF i >= Len(files) \/ ~StrLess(files[i + 1].path, path) THEN i
    ELSE SearchFrom(files, path, i + 1)

GetFileInfoResult(index, path) ==
    LET i == SearchFrom(index.files, path, 0)
    IN  IF i < Len(index.files) /\ index.files[i + 1].path = path
        THEN LET file == index.files[i + 1]
             IN  IF file.bundleId >= Len(index.bundles)
                 THEN [err |-> "panic"]
                 ELSE [err |-> "nil", BundleName |-> index.bundles[file.bundleId + 1],
                       Offset |-> file.offset, Size |-> file.size]
        ELSE [err |-> "file not found"]

ListFilesResult(index) == [i \in 1..Len(index.files) |-> index.files[i].path]

-----------------------------------------------------------------------------
(* Index decoder: the index payloads explored *)

PathAX == <<97, 47, 120>>       \* "a/x"

PathAY == <<97, 47, 121>>       \* "a/y"

PathZ == <<122>>                \* "z"

\* A block that builds the name "a/" and emits "a/x" and "a/y".
PathBlockA ==
    U32LE(0) \o U32LE(1) \o <<97, 47, 0>> \o U32LE(0)
    \o U32LE(1) \o <<120, 0>> \o U32LE(1) \o <<121, 0>>

\* A block that emits "z".
PathBlockZ == U32LE(1) \o <<122, 0>>

PathrepGranularity == 16

IndexGranularity == 256

FileRecord(hash, bundleId, offset, size) ==
    hash \o U32LE(bundleId) \o U32LE(offset) \o U32LE(size)

\* The third record of the file table: the file "z", a second record with the
\* hash of "a/x", a record no path hashes to, or the file "z" with a bundle id
\* one past the bundle list.
FileTables == {"plain", "dup", "orphan", "badbundle"}

\* A block that emits "A/X", the path "a/x" in capitals.
PathBlockCaps == U32LE(1) \o ToUpper(PathAX) \o <<0>>

\* The second pathrep lies within the pathrep data, or reaches past its end,
\* or is the block that emits "A/X".
PathrepTables == {"fit", "over", "recased"}

SecondBlock(pathrepTable) == IF pathrepTable = "recased" THEN PathBlockCaps ELSE PathBlockZ

RawIndex(fileTable, pathrepTable) ==
    U32LE(1) \o U32LE(2) \o <<98, 48>> \o U32LE(3)
    \o U32LE(3)
    \o FileRecord(MurmurHashPath(PathAX), 0, 0, 1)
    \o FileRecord(FNVHashPath(PathAY), 0, 1, 1)
    \o FileRecord(CASE fileTable \in {"plain", "badbundle"} -> MurmurHashPath(PathZ)
                    [] fileTable = "dup" -> MurmurHashPath(PathAX)
                    [] OTHER -> Zeros(8),
                  IF fileTable = "badbundle" THEN 1 ELSE 0, 2, 1)
    \o U32LE(2)
    \o U64(1) \o U32LE(0) \o U32LE(Len(PathBlockA)) \o U32LE(Len(PathBlockA))
    \o U64(2) \o U32LE(Len(PathBlockA))
              \o U32LE(Len(SecondBlock(pathrepTable)) + (IF pathrepTable = "over" THEN 4 ELSE 0))
              \o U32LE(Len(SecondBlock(pathrepTable)))
    \o BundleBytes(PathBlockA \o SecondBlock(pathrepTable), PathrepGranularity)

IxRequestPaths == {PathAX, PathAY, PathZ, <<>>, <<98>>}

-----------------------------------------------------------------------------
(* Index decoder: operations *)

\* The payload is the first keep bytes of an index, as they are or held in a
\* bundle.
IxInit ==
    \E fileTable \in FileTables, pathrepTable \in PathrepTables, wrapped \in BOOLEAN :
        \E raw \in {RawIndex(fileTable, pathrepTable)} :
            \E keep \in 0..Len(raw) :
                ix = [state |-> "ready",
                      data |-> IF wrapped
                               THEN BundleBytes(SubSeq(raw, 1, keep), IndexGranularity)
                               ELSE SubSeq(raw, 1, keep),
                      gen |-> [fileTable |-> fileTable, pathrepTable |-> pathrepTable,
                               wrapped |-> wrapped, keep |-> keep, full |-> Len(raw)],
                      result |-> None, call |-> None]

LoadIndex ==
    /\ ix.state = "ready"
    /\ \E order \in Orders({1, 2}) :
          ix' = [ix EXCEPT !.state = "done", !.result = LoadIndexResult(ix.data, order)]
    /\ UNCHANGED notIx

GetFileInfo ==
    /\ ix.state = "done" /\ ix.result.outcome = "index"
    /\ \E path \in IxRequestPaths :
          ix' = [ix EXCEPT !.call = [op |-> "GetFileInfo", path |-> path,
                                     res |-> GetFileInfoResult(ix.result.index, path)]]
    /\ UNCHANGED notIx

ListFiles ==
    /\ ix.state = "done" /\ ix.result.outcome = "index"
    /\ ix' = [ix EXCEPT !.call = [op |-> "ListFiles",
                                  res |-> ListFilesResult(ix.result.index)]]
    /\ UNCHANGED notIx

NextIx == LoadIndex \/ GetFileInfo \/ ListFiles

InitIx == component = "index" /\ IxInit /\ BundleIdle /\ MgrIdle /\ DatIdle /\ RestIdle

SpecIx == InitIx /\ [][NextIx]_vars

-----------------------------------------------------------------------------
(* Index decoder: claims *)

Loaded == component = "index" /\ ix.state = "done"

\* C9: loading a payload cut short at any point, or one whose pathrep reaches
\* past the pathrep data, returns an error (the decoder does not read past
\* the end of its input and does not panic).
C9_TruncatedIndexFails ==
    (/\ Loaded
     /\ ix.gen.fileTable /= "dup"
     /\ (ix.gen.keep < ix.gen.full \/ ix.gen.pathrepTable = "over"))
    => ix.result.outcome = "error"

\* C10: loading a complete payload whose file table holds the same hash
\* twice returns an error and no index; it does not panic.
C10_DuplicateHashIsError ==
    (Loaded /\ ix.gen.fileTable = "dup" /\ ix.gen.keep = ix.gen.full)
    => ix.result.outcome = "error"

Listed == Loaded /\ ix.call /= None /\ ix.call.op = "ListFiles"

\* The paths the pathrep blocks of the payload reconstruct.
ReconstructedPaths == {PathAX, PathAY, PathZ}

\* C11: the list ListFiles exports is sorted ascending by path and holds only
\* resolved paths: no empty path, nothing but reconstructed paths.
C11_ListSortedAndResolved ==
    Listed
    => /\ \A i \in 1..(Len(ix.call.res) - 1) : ~StrLess(ix.call.res[i + 1], ix.call.res[i])
       /\ \A i \in 1..Len(ix.call.res) : ix.call.res[i] \in ReconstructedPaths

\* C12: in a loaded index every file record's bundle id is below the number
\* of bundles, and GetFileInfo of a file found in the index does not access
\* the bundle list out of range.
C12_BundleIdInRange ==
    (Loaded /\ ix.result.outcome = "index")
    => /\ \A i \in 1..Len(ix.result.index.files) :
             ix.result.index.files[i].bundleId < Len(ix.result.index.bundles)
       /\ (ix.call /= None /\ ix.call.op = "GetFileInfo") => ix.call.res.err /= "panic"

\* The slot of column k (from 1) in row i of the parsed file, when the walk
\* over the row's columns gives every column up to k its whole slot.
RECURSIVE SlotStart(_, _, _)
SlotStart(d, k, j) ==
    IF j >= k THEN 0
    ELSE calculateFieldSize(d.parser.width, d.schema.Columns[j]) + SlotStart(d, k, j + 1)

SlotFits(d, i, k) ==
    SlotStart(d, k + 1, 1) <= Len(RowData(d, i))

SlotOf(d, i, k) ==
    Slice(RowData(d, i), SlotStart(d, k, 1),
          calculateFieldSize(d.parser.width, d.schema.Columns[k]))

\* The value the returned table holds for column k of row i, NoValue when the
\* row has no such field.
NoValue == [kind |-> "absent"]

FieldOf(d, i, k) ==
    IF k <= Len(d.table.Rows[i + 1].Fields)
    THEN d.table.Rows[i + 1].Fields[k].value ELSE NoValue

\* C13: an array slot whose count is the sentinel decodes to the empty array
\* of the column's element type, and the row holds it.
C13_SentinelCountIsEmpty ==
    (component = "dat" /\ Succeeded(dat))
    => \A i \in 0..(dat.RowCount - 1) :
          (/\ dat.schema.Columns[2].array
           /\ SlotFits(dat, i, 2)
           /\ Slice(SlotOf(dat, i, 2), 0, 4) = Sentinel32)
          => FieldOf(dat, i, 2) = EmptyArray(dat.schema.Columns[2].type)

\* What the decoder of a 64-bit longid slot has to give: null when both halves
\* are the sentinel, no value (the field fails) when the high half is neither
\* zero nor the sentinel, the low 8 bytes otherwise.
LongIDExpected(slot) ==
    LET value == Slice(slot, 0, 8)
        high == Slice(slot, 8, 8)
    IN  IF value = Sentinel64 /\ high = Sentinel64 THEN Null
        ELSE IF high /= Zeros(8) /\ high /= Sentinel64 THEN NoValue
        ELSE [kind |-> "longid", bytes |-> value]

\* C14: in a 64-bit file a longid slot is null when both halves are the
\* sentinel, fails only when its high half is neither zero nor the sentinel,
\* and gives its low 8 bytes in every other case.
C14_LongIDHighHalf ==
    (component = "dat" /\ Succeeded(dat) /\ dat.parser.width = 64)
    => \A i \in 0..(dat.RowCount - 1) :
          (dat.schema.Columns[2].type = "longid" /\ SlotFits(dat, i, 2))
          => FieldOf(dat, i, 2) = LongIDExpected(SlotOf(dat, i, 2))

\* The context was cancelled when k rows had been decoded and the loop had a
\* row k still to start.
CancelledBeforeRow(d) ==
    d.state = "done" /\ d.cancelled /\ d.cancelledAt < d.RowCount

\* C16: when the context is cancelled before row i of the loop is started, the
\* call decodes no row from i on, and returns the context's error and no
\* table.
C16_CancelStopsBeforeRow ==
    (component = "dat" /\ CancelledBeforeRow(dat))
    => /\ Len(dat.rows) = dat.cancelledAt
       /\ dat.err = "context canceled"
       /\ dat.table = NoTable

C16_Witness ==
    /\ component = "dat" /\ CancelledBeforeRow(dat)
    /\ dat.cancelledAt > 0
    /\ dat.err = "context canceled"

-----------------------------------------------------------------------------
(* ReadString on long strings.  The dynamic section is the marker followed  *)
(* by a run of `units` copies of one code unit and the terminator; it is    *)
(* kept as that description and read through UnitAt, and the loop of        *)
(* ReadString runs one iteration per step, keeping the length of `result`.  *)

MaxOver == 1        \* how far the string lengths go beyond each limit

RunUnit == 97

StringLengths ==
    (0..MaxOver)
    \cup {DefaultMaxStringLength \div 2 + d : d \in (-MaxOver)..MaxOver}
    \cup {DefaultMaxStringLength + d : d \in (-MaxOver)..MaxOver}

StringOffsets == {0, OffsetHi}

\* len(dynamicData), and binary.LittleEndian.Uint16(data[i:]) for
\* data = dynamicData[offset:].
DynamicLen(units) == OffsetHi + 2 * units + 2

UnitAt(call, i) ==
    IF call.offset + i < OffsetHi + 2 * call.units THEN RunUnit ELSE 0

\* A run of `count` copies of one code unit, as a string.
Run(count) == [kind |-> "string", unit |-> RunUnit, count |-> count]

StrInit ==
    \E units \in StringLengths, offset \in StringOffsets :
        strCall = [state |-> "ready", units |-> units, offset |-> offset,
                   options |-> NewDATParser.options,
                   i |-> 0, result |-> 0, res |-> None]

\* ReadString up to its loop.
ReadStringBegin ==
    /\ strCall.state = "ready"
    /\ strCall' =
          IF strCall.offset = 0 \/ strCall.offset < MinOffsetForArraysAndStrings
          THEN [strCall EXCEPT !.state = "done", !.res = Ok(Run(0))]
          ELSE IF strCall.offset >= DynamicLen(strCall.units)
          THEN [strCall EXCEPT !.state = "done",
                               !.res = Fail("string: offset exceeds dynamic data size")]
          ELSE [strCall EXCEPT !.state = "loop"]
    /\ UNCHANGED notStr

\* One iteration of the loop; the loop's exit decodes and returns.
ReadStringLoop ==
    /\ strCall.state = "loop"
    /\ LET data == DynamicLen(strCall.units) - strCall.offset
           ch == UnitAt(strCall, strCall.i)
       IN  strCall' =
              IF ~(strCall.i < data - 1) \/ ch = 0
              THEN [strCall EXCEPT !.state = "done", !.res = Ok(Run(strCall.result))]
              ELSE IF Exceeds(strCall.result + 1, strCall.options.MaxStringLength)
              THEN [strCall EXCEPT !.state = "done", !.result = @ + 1,
                                   !.res = Fail("string: exceeds maximum length")]
              ELSE [strCall EXCEPT !.i = @ + 2, !.result = @ + 1]
    /\ UNCHANGED notStr

NextStr == ReadStringBegin \/ ReadStringLoop

InitStr ==
    /\ component = "string" /\ StrInit
    /\ BundleIdle /\ MgrIdle /\ DatIdle /\ IxIdle
    /\ ParIdle /\ ConcIdle /\ BsetIdle /\ LookupIdle /\ LateIdle

SpecStr == InitStr /\ [][NextStr]_vars

\* A call on a string stored in the dynamic section has returned.
StringRead ==
    component = "string" /\ strCall.state = "done" /\ strCall.offset = OffsetHi

\* C15: with the default options a string of up to 65,536 code units is
\* accepted and returned whole, and only a longer one is too long.
C15_AcceptsUpToLimitUnits ==
    StringRead
    => /\ strCall.units <= DefaultMaxStringLength
            => strCall.res = Ok(Run(strCall.units))
       /\ strCall.res.err /= "nil" => strCall.units > DefaultMaxStringLength

\* C15 (amended): the limit of 65,536 is compared with twice the number of
\* code units, so a string is accepted and returned whole when it has at most
\* 32,768 code units and is too long when it has more.
C15_AcceptsUpToLimitBytes ==
    StringRead
    => IF strCall.units * 2 <= DefaultMaxStringLength
       THEN strCall.res = Ok(Run(strCall.units))
       ELSE strCall.res = Fail("string: exceeds maximum length")

C15_Witness ==
    /\ StringRead
    /\ strCall.units * 2 = DefaultMaxStringLength
    /\ strCall.res = Ok(Run(strCall.units))

-----------------------------------------------------------------------------
(* DAT decoder: two calls of ParseDATFileWithFilename running in parallel   *)
(* on one DATParser.  The parser's fields are shared by the calls; a read   *)
(* of p.width gives the value last written by either call.                  *)

MaxParRows == 2

Callers == {1, 2}

ParCall(schema, n, ext) ==
    [state |-> "ready", data |-> DatFileBytes(schema, [i \in 1..n |-> "ok"], 0, 0),
     ext |-> ext, schema |-> schema, parser |-> NewDATParser,
     RowCount |-> 0, FixedData |-> <<>>, DynamicData |-> <<>>,
     actualBoundaryPos |-> 0, rowSize |-> 0, rows |-> <<>>,
     err |-> "nil", table |-> NoTable,
     cancelled |-> FALSE, cancelledAt |-> -1]

ParInit ==
    \E schemas \in [Callers -> Schemas], n \in [Callers -> 1..MaxParRows],
       ext \in [Callers -> Extensions] :
        par = [p |-> NewDATParser,
               calls |-> [k \in Callers |-> ParCall(schemas[k], n[k], ext[k])]]

\* The call reads its input, checks the size and the header, and assigns
\* p.width.
ParAssignWidth(k) ==
    /\ par.calls[k].state = "ready"
    /\ LET d == par.calls[k]
       IN  IF Len(d.data) < MinDATFileSize \/ parseDATStructure(d.data).err /= "nil"
           THEN par' = [par EXCEPT !.calls[k] = HeaderOf(d, par.p)]
           ELSE par' = [par EXCEPT !.p.width = WidthForFilename(d.ext),
                                   !.calls[k].state = "width"]
    /\ UNCHANGED notPar

\* The call computes the row size from p.width and finds the boundary.
ParRowSize(k) ==
    /\ par.calls[k].state = "width"
    /\ par' = [par EXCEPT !.calls[k] = HeaderOf(par.calls[k], par.p)]
    /\ UNCHANGED notPar

\* One iteration of the call's row loop; parseRow reads p.width.
ParParseNextRow(k) ==
    /\ par.calls[k].state = "rows"
    /\ Len(par.calls[k].rows) < par.calls[k].RowCount
    /\ LET d == par.calls[k]
           i == Len(d.rows)
       IN  par' = [par EXCEPT !.calls[k].rows =
                        Append(@, parseRow(par.p, i, RowData(d, i), d.DynamicData, d.schema))]
    /\ UNCHANGED notPar

ParReturn(k) ==
    /\ par.calls[k].state = "rows"
    /\ Len(par.calls[k].rows) >= par.calls[k].RowCount
    /\ par' = [par EXCEPT !.calls[k].state = "done",
                          !.calls[k].table = ParsedTable(par.calls[k])]
    /\ UNCHANGED notPar

NextPar ==
    \E k \in Callers :
        ParAssignWidth(k) \/ ParRowSize(k) \/ ParParseNextRow(k) \/ ParReturn(k)

InitPar ==
    /\ component = "parallel" /\ ParInit
    /\ BundleIdle /\ MgrIdle /\ DatIdle /\ IxIdle
    /\ StrIdle /\ ConcIdle /\ BsetIdle /\ LookupIdle /\ LateIdle

SpecPar == InitPar /\ [][NextPar]_vars

\* What the call d returns when it is the only call on its parser.
RECURSIVE RowsAlone(_, _)
RowsAlone(h, i) ==
    IF i >= h.RowCount THEN h
    ELSE RowsAlone([h EXCEPT !.rows = Append(@, parseRow(h.parser, i, RowData(h, i),
                                                         h.DynamicData, h.schema))],
                   i + 1)

Outcome(d) == [err |-> d.err, table |-> d.table]

ReturnsAlone(d) ==
    LET fresh == [d EXCEPT !.state = "ready", !.rows = <<>>, !.err = "nil",
                           !.table = NoTable]
        h == HeaderOf(fresh, [NewDATParser EXCEPT !.width = WidthForFilename(d.ext)])
    IN  IF h.state = "done" THEN Outcome(h)
        ELSE [err |-> "nil", table |-> ParsedTable(RowsAlone(h, 0))]

\* C17: each of two calls running in parallel on one parser returns what it
\* returns when run alone, whatever the widths of the two file names.
C17_ParallelCallsIndependent ==
    component = "parallel"
    => \A k \in Callers :
          par.calls[k].state = "done"
          => Outcome(par.calls[k]) = ReturnsAlone(par.calls[k])

-----------------------------------------------------------------------------
(* bundle.ReadAt: two calls in progress on one opened bundle.  The bundle's  *)
(* fields are only read; ibuf, obuf, n, off and p are locals of each call.   *)
(* A call takes one step to read and decompress a block into its obuf and    *)
(* one to copy from obuf into p, and the steps of the two calls interleave.  *)

MaxConcSize == 3    \* longest stream, and largest len(p) and off of a call
MaxConcGran == 2    \* largest granularity
MaxConcTrunc == 1   \* most bytes cut from the end of the bundle file

Readers == {1, 2}

\* The obuf that call k decompresses into and copies from: its own.
ScratchShared(k) == 1

Scratch(k) == k

ConcIdleCall == [state |-> "idle"]

ConcInit ==
    /\ \E kind \in {"BytesReaderAt", "File"}, size \in 0..MaxConcSize,
          gran \in 1..MaxConcGran, nblocks \in 0..MaxBlocks, trunc \in 0..MaxConcTrunc :
            /\ r = BundleFile(kind, size, gran, nblocks, trunc)
            /\ b = OpenBundleResult(r)
    /\ b.state = "open"
    /\ rd = None
    /\ rdFirst = None
    /\ conc = [calls |-> [k \in Readers |-> ConcIdleCall],
               obuf |-> [k \in Readers |-> <<>>],
               overlapped |-> FALSE]

ConcResult(c, n, err, panic) ==
    [state |-> "done", len |-> c.len, off0 |-> c.off0,
     res |-> [n |-> n, err |-> err, p |-> IF panic THEN <<>> ELSE c.p,
              panic |-> panic, nd |-> c.nd]]

\* The loop's test: the call returns n, nil once p is full.
LoopHead(c) ==
    IF c.n >= c.len THEN ConcResult(c, c.n, "nil", FALSE)
    ELSE [c EXCEPT !.state = "loop"]

\* Some step of the other call was taken while this one was in its loop.
InFlight(k) == \E j \in Readers \ {k} : conc.calls[j].state \in {"loop", "copy"}

\* b.ReadAt(p, off) is called: the bounds check and the two make()s.
ConcReadAt(k) ==
    /\ conc.calls[k].state = "idle"
    /\ \E len \in 0..MaxConcSize, off \in 0..MaxConcSize :
          LET c == [state |-> "loop", len |-> len, off0 |-> off, n |-> 0, off |-> off,
                    p |-> Zeros(len), nd |-> 0, blkOff |-> 0]
          IN  conc' = [conc EXCEPT
                         !.calls[k] = IF OutsideBounds(b, len, off)
                                      THEN ConcResult(c, 0, "read outside bounds of file", FALSE)
                                      ELSE LoopHead(c),
                         !.obuf[Scratch(k)] = IF OutsideBounds(b, len, off) THEN @
                                              ELSE Zeros(b.granularity),
                         !.overlapped = @ \/ InFlight(k)]
    /\ UNCHANGED notConc

\* The first half of an iteration: the block is read and decompressed.
ConcDecompress(k) ==
    /\ conc.calls[k].state = "loop"
    /\ LET c == conc.calls[k]
           blkId == GoDiv(c.off, b.granularity)
           blkOff == GoMod(c.off, b.granularity)
           obuf == conc.obuf[Scratch(k)]
       IN  IF blkId < 0 \/ blkId >= Len(b.blocks)
           THEN conc' = [conc EXCEPT !.calls[k] = ConcResult(c, 0, "panic", TRUE),
                                     !.overlapped = @ \/ InFlight(k)]
           ELSE
           LET blk == b.blocks[blkId + 1]
               rawSize == RawSize(b, blkId)
               got == DataReadAt(b.data, blk.length, blk.offset)
               dec == GoozDecompress(got.bytes, rawSize)
           IN  IF blk.length > b.granularity + 64
               THEN conc' = [conc EXCEPT !.calls[k] = ConcResult(c, 0, "panic", TRUE),
                                         !.overlapped = @ \/ InFlight(k)]
               ELSE IF got.n /= blk.length
               THEN conc' = [conc EXCEPT !.calls[k] = ConcResult(c, 0, got.err, FALSE),
                                         !.overlapped = @ \/ InFlight(k)]
               ELSE IF rawSize < 0 \/ rawSize > b.granularity
               THEN conc' = [conc EXCEPT !.calls[k] = ConcResult(c, 0, "panic", TRUE),
                                         !.overlapped = @ \/ InFlight(k)]
               ELSE IF dec.err
               THEN conc' = [conc EXCEPT
                               !.calls[k] = ConcResult([c EXCEPT !.nd = @ + 1], 0,
                                                       "decompression failed", FALSE),
                               !.overlapped = @ \/ InFlight(k)]
               ELSE conc' = [conc EXCEPT
                               !.calls[k] = [c EXCEPT !.state = "copy", !.nd = @ + 1,
                                                      !.blkOff = blkOff],
                               !.obuf[Scratch(k)] =
                                   [i \in 1..b.granularity |->
                                       IF i <= rawSize THEN dec.out[i] ELSE obuf[i]],
                               !.overlapped = @ \/ InFlight(k)]
    /\ UNCHANGED notConc

\* The second half: copy(p[n:], obuf[blkOff:]), then the loop's test.
ConcCopy(k) ==
    /\ conc.calls[k].state = "copy"
    /\ LET c == conc.calls[k]
           obuf == conc.obuf[Scratch(k)]
           copied == Min(c.len - c.n, b.granularity - c.blkOff)
           p2 == [i \in 1..c.len |->
                    IF i > c.n /\ i <= c.n + copied
                    THEN obuf[c.blkOff + (i - c.n)] ELSE c.p[i]]
       IN  conc' = [conc EXCEPT
                      !.calls[k] = LoopHead([c EXCEPT !.n = @ + copied, !.off = @ + copied,
                                                      !.p = p2]),
                      !.overlapped = @ \/ InFlight(k)]
    /\ UNCHANGED notConc

NextConc == \E k \in Readers : ConcReadAt(k) \/ ConcDecompress(k) \/ ConcCopy(k)

InitConc ==
    /\ component = "concurrent" /\ ConcInit
    /\ MgrIdle /\ DatIdle /\ IxIdle
    /\ StrIdle /\ ParIdle /\ BsetIdle /\ LookupIdle /\ LateIdle

SpecConc == InitConc /\ [][NextConc]_vars

\* C18: whatever the interleaving of two ReadAt calls on one bundle, each
\* call returns the bytes, the count and the error it returns when it is the
\* only call.
C18_ConcurrentReadAtAlone ==
    component = "concurrent"
    => \A k \in Readers :
          conc.calls[k].state = "done"
          => conc.calls[k].res = ReadAtResult(b, conc.calls[k].len, conc.calls[k].off0)

C18_Witness ==
    /\ component = "concurrent"
    /\ conc.overlapped
    /\ \A k \in Readers :
          /\ conc.calls[k].state = "done"
          /\ conc.calls[k].res.err = "nil"
          /\ conc.calls[k].res.n > b.granularity
    /\ conc.calls[1].res.p /= conc.calls[2].res.p

-----------------------------------------------------------------------------
(* GetBundleSet: the bundles a selection of tables, languages and files     *)
(* needs, over an index (sorted file records and bundle names).             *)

Ext == <<46, 100, 97, 116, 99, 54, 52>>         \* ".datc64"

StrTxt == <<46, 116, 120, 116>>                 \* ".txt"

TableT == <<84>>                                \* "T"

TableU == <<117>>                               \* "u"

\* "Art/UIImages1.txt"
PathUIImages1 ==
    <<65, 114, 116, 47, 85, 73, 73, 109, 97, 103, 101, 115, 49, 46, 116,
      120, 116>>

\* "Art/2DArt/UIImages/"
NameUIImages ==
    <<65, 114, 116, 47, 50, 68, 65, 114, 116, 47, 85, 73, 73, 109, 97, 103,
      101, 115, 47>>

\* "Art/UIDivinationImages.txt"
PathUIDivinationImages ==
    <<65, 114, 116, 47, 85, 73, 68, 105, 118, 105, 110, 97, 116, 105, 111,
      110, 73, 109, 97, 103, 101, 115, 46, 116, 120, 116>>

\* "Art/2DItems/Divination/Images/"
NameDivination ==
    <<65, 114, 116, 47, 50, 68, 73, 116, 101, 109, 115, 47, 68, 105, 118,
      105, 110, 97, 116, 105, 111, 110, 47, 73, 109, 97, 103, 101, 115, 47>>

\* "Art/UIShopImages.txt"
PathUIShopImages ==
    <<65, 114, 116, 47, 85, 73, 83, 104, 111, 112, 73, 109, 97, 103, 101,
      115, 46, 116, 120, 116>>

\* "Art/2DArt/Shop/"
NameShop ==
    <<65, 114, 116, 47, 50, 68, 65, 114, 116, 47, 83, 104, 111, 112, 47>>

FileX == <<120>>                                \* "x"

HasSuffix(str, suffix) ==
    Len(str) >= Len(suffix)
    /\ SubSeq(str, Len(str) - Len(suffix) + 1, Len(str)) = suffix

\* export.SpriteLists and export.IsInsideSprite.
SpriteLists ==
    << [Path |-> PathUIImages1, NamePrefix |-> NameUIImages],
       [Path |-> PathUIDivinationImages, NamePrefix |-> NameDivination],
       [Path |-> PathUIShopImages, NamePrefix |-> NameShop] >>

IsInsideSprite(path) ==
    \E i \in 1..Len(SpriteLists) : HasPrefix(path, SpriteLists[i].NamePrefix)

\* fmt.Sprintf("data/%s%s", lowerTableName, ext), with the table name as given
\* or lowercased.
TablePathAsGiven(table) == StrDataLower \o table \o Ext

TablePath(table) == StrDataLower \o ToLower(table) \o Ext

LangTablePath(language, table) ==
    StrDataLower \o ToLower(language) \o StrSlash \o ToLower(table) \o Ext

\* bundleSet with the bundle of path added when GetFileInfo finds path.
AddBundleOf(index, bundleSet, path) ==
    LET loc == GetFileInfoResult(index, path)
    IN  IF loc.err = "nil" THEN bundleSet \cup {loc.BundleName} ELSE bundleSet

RECURSIVE AddLanguages(_, _, _, _, _)
AddLanguages(index, bundleSet, table, languages, j) ==
    IF j > Len(languages) THEN bundleSet
    ELSE IF languages[j] = English
         THEN AddLanguages(index, bundleSet, table, languages, j + 1)
         ELSE AddLanguages(index,
                           AddBundleOf(index, bundleSet, LangTablePath(languages[j], table)),
                           table, languages, j + 1)

RECURSIVE AddTables(_, _, _, _, _)
AddTables(index, bundleSet, tables, languages, i) ==
    IF i > Len(tables) THEN bundleSet
    ELSE AddTables(index,
                   AddLanguages(index, AddBundleOf(index, bundleSet, TablePath(tables[i])),
                                tables[i], languages, 1),
                   tables, languages, i + 1)

RECURSIVE AddAllDatFiles(_, _, _, _)
AddAllDatFiles(index, bundleSet, allFiles, i) ==
    IF i > Len(allFiles) THEN bundleSet
    ELSE AddAllDatFiles(index,
                        IF HasPrefix(allFiles[i], StrDataLower) /\ HasSuffix(allFiles[i], Ext)
                        THEN AddBundleOf(index, bundleSet, allFiles[i]) ELSE bundleSet,
                        allFiles, i + 1)

RECURSIVE AddPaths(_, _, _, _)
AddPaths(index, bundleSet, paths, i) ==
    IF i > Len(paths) THEN bundleSet
    ELSE AddPaths(index, AddBundleOf(index, bundleSet, paths[i]), paths, i + 1)

GetBundleSetResult(index, tables, languages, files) ==
    LET allFiles == ListFilesResult(index)
        selected == IF Len(tables) > 0
                    THEN AddTables(index, {"_.index.bin"}, tables, languages, 1)
                    ELSE AddAllDatFiles(index, {"_.index.bin"}, allFiles, 1)
        requested == AddPaths(index, selected, files, 1)
        needsSpriteIndices == \E i \in 1..Len(files) : IsInsideSprite(files[i])
    IN  IF Len(files) > 0 /\ needsSpriteIndices
        THEN AddPaths(index, requested, [i \in 1..Len(SpriteLists) |-> SpriteLists[i].Path], 1)
        ELSE requested

-----------------------------------------------------------------------------
(* GetBundleSet: the indexes and selections explored *)

MaxTables == 2      \* longest list of selected tables
MaxFiles == 1       \* longest list of explicitly requested files

\* The files an index may hold; file j lies in bundle (j - 1) mod 4.
BsetPaths ==
    << StrDataLower \o ToLower(TableT) \o Ext,
       StrDataLower \o ToLower(French) \o StrSlash \o ToLower(TableT) \o Ext,
       StrDataLower \o TableU \o Ext,
       StrDataLower \o ToLower(English) \o StrSlash \o ToLower(TableT) \o Ext,
       StrDataLower \o ToLower(TableT) \o StrTxt,
       NameUIImages \o FileX,
       PathUIImages1,
       PathUIShopImages >>

BsetBundles == <<"b0", "b1", "b2", "b3">>

BsetFile(j) ==
    [path |-> BsetPaths[j], bundleId |-> (j - 1) % Len(BsetBundles),
     offset |-> j - 1, size |-> 1]

\* An index as LoadIndex leaves it: the files sorted by path.
BsetIndex(held) ==
    [bundles |-> BsetBundles, files |-> SortByPath({BsetFile(j) : j \in held})]

SeqsUpTo(S, n) == UNION {[1..k -> S] : k \in 0..n}

BsetTables == SeqsUpTo({TableT, TableU}, MaxTables)

BsetLanguages == {<<>>, <<English>>, <<French>>, <<English, French>>}

BsetFiles ==
    SeqsUpTo({BsetPaths[1], NameUIImages \o FileX, StrArt \o FileT}, MaxFiles)

BsetInit ==
    \E held \in SUBSET (1..Len(BsetPaths)) :
        \E index \in {BsetIndex(held)} :
            \E tables \in BsetTables, languages \in BsetLanguages, files \in BsetFiles :
                bset = [state |-> "ready", index |-> index, tables |-> tables,
                        languages |-> languages, files |-> files, bundleSet |-> {}]

GetBundleSet ==
    /\ bset.state = "ready"
    /\ bset' = [bset EXCEPT !.state = "done",
                            !.bundleSet = GetBundleSetResult(bset.index, bset.tables,
                                                             bset.languages, bset.files)]
    /\ UNCHANGED notBset

NextBset == GetBundleSet

InitBset ==
    /\ component = "bundleset" /\ BsetInit
    /\ BundleIdle /\ MgrIdle /\ DatIdle /\ IxIdle
    /\ StrIdle /\ ParIdle /\ ConcIdle /\ LookupIdle /\ LateIdle

SpecBset == InitBset /\ [][NextBset]_vars

\* The bundles of the paths in want that the index holds.
BundlesOf(index, want) ==
    {index.bundles[index.files[i].bundleId + 1] :
        i \in {j \in 1..Len(index.files) : index.files[j].path \in want}}

Elems(sq) == {sq[i] : i \in 1..Len(sq)}

IndexedPaths(index) == {index.files[i].path : i \in 1..Len(index.files)}

\* The paths the selection of tables and languages stands for.
SelectedPaths(index, tables, languages) ==
    IF tables /= <<>>
    THEN {StrDataLower \o ToLower(t) \o Ext : t \in Elems(tables)}
         \cup {StrDataLower \o ToLower(l) \o StrSlash \o ToLower(t) \o Ext :
                 l \in Elems(languages) \ {English}, t \in Elems(tables)}
    ELSE {q \in IndexedPaths(index) : HasPrefix(q, StrDataLower) /\ HasSuffix(q, Ext)}

SpritePaths(files) ==
    IF \E f \in Elems(files) : \E i \in 1..Len(SpriteLists) :
            HasPrefix(f, SpriteLists[i].NamePrefix)
    THEN {SpriteLists[i].Path : i \in 1..Len(SpriteLists)}
    ELSE {}

\* C19: the set GetBundleSet returns is the index bundle together with the
\* bundles of the selected tables' files (per table and non-English language,
\* or every data/*.datc64 file when no table is selected), of the requested
\* files, and of the sprite-index files when a requested file lies under a
\* sprite-sheet prefix, each only when the index holds the path.
C19_BundleSetExact ==
    (component = "bundleset" /\ bset.state = "done")
    => bset.bundleSet =
          {"_.index.bin"}
          \cup BundlesOf(bset.index,
                         SelectedPaths(bset.index, bset.tables, bset.languages)
                         \cup Elems(bset.files) \cup SpritePaths(bset.files))

C19_Witness ==
    /\ component = "bundleset" /\ bset.state = "done"
    /\ bset.tables = <<TableT>>
    /\ bset.languages = <<English, French>>
    /\ bset.files = <<NameUIImages \o FileX>>
    /\ Len(bset.index.files) = Len(BsetPaths)
    /\ bset.bundleSet = {"_.index.bin", "b0", "b1", "b2", "b3"}

-----------------------------------------------------------------------------
(* Community schema: GetTableSchemaForVersion over a document's tables      *)

ValidForPoE1 == 1

ValidForPoE2 == 2

\* strings.Split(version, ".")[0]: the text before the first dot.
RECURSIVE FirstPart(_)
FirstPart(str) ==
    IF str = <<>> \/ Head(str) = 46 THEN <<>>
    ELSE <<Head(str)>> \o FirstPart(Tail(str))

IsDigit(c) == c >= 48 /\ c <= 57

RECURSIVE DigitsValue(_, _)
DigitsValue(str, acc) ==
    IF str = <<>> THEN acc ELSE DigitsValue(Tail(str), acc * 10 + (Head(str) - 48))

\* strconv.Atoi: an optional sign and at least one digit, nothing else.
Atoi(str) ==
    LET signed == str /= <<>> /\ Head(str) \in {43, 45}
        digits == IF signed THEN Tail(str) ELSE str
    IN  IF digits = <<>> \/ \E i \in 1..Len(digits) : ~IsDigit(digits[i])
        THEN [err |-> "invalid syntax", v |-> 0]
        ELSE [err |-> "nil",
              v |-> IF signed /\ Head(str) = 45 THEN -DigitsValue(digits, 0)
                    ELSE DigitsValue(digits, 0)]

ParseGameVersion(version) ==
    IF version = <<>> THEN [err |-> "version string cannot be empty", v |-> 0]
    ELSE LET majorVersion == Atoi(FirstPart(version))
         IN  IF majorVersion.err /= "nil"
             THEN [err |-> "invalid major version number", v |-> 0]
             ELSE IF majorVersion.v < 3 \/ majorVersion.v > 4
             THEN [err |-> "unsupported game version", v |-> 0]
             ELSE majorVersion

\* vf & flag /= 0 for the one-bit flags.
HasFlag(vf, flag) == (vf \div flag) % 2 = 1

IsValidForGameAlwaysPoE1(vf, gameVersion) == HasFlag(vf, ValidForPoE1)

IsValidForGame(vf, gameVersion) ==
    IF gameVersion >= 4 THEN HasFlag(vf, ValidForPoE2) ELSE HasFlag(vf, ValidForPoE1)

\* The positions (from 1) appended to matchingSchemas by the first loop.
RECURSIVE ExactMatches(_, _, _, _)
ExactMatches(tables, tableName, majorVersion, i) ==
    IF i > Len(tables) THEN <<>>
    ELSE (IF tables[i].Name = tableName /\ IsValidForGame(tables[i].ValidFor, majorVersion)
          THEN <<i>> ELSE <<>>)
         \o ExactMatches(tables, tableName, majorVersion, i + 1)

\* ... and by the second, case-insensitive loop.
RECURSIVE FoldedMatches(_, _, _, _)
FoldedMatches(tables, lowerTableName, majorVersion, i) ==
    IF i > Len(tables) THEN <<>>
    ELSE (IF ToLower(tables[i].Name) = lowerTableName
             /\ IsValidForGame(tables[i].ValidFor, majorVersion)
          THEN <<i>> ELSE <<>>)
         \o FoldedMatches(tables, lowerTableName, majorVersion, i + 1)

\* The outcome: the position of the selected table in the document.
GetTableSchemaForVersionResult(tables, tableName, gameVersion) ==
    LET majorVersion == ParseGameVersion(gameVersion)
    IN  IF majorVersion.err /= "nil" THEN [err |-> "parsing game version", selected |-> 0]
        ELSE LET exact == ExactMatches(tables, tableName, majorVersion.v, 1)
                 matchingSchemas ==
                     IF Len(exact) = 0
                     THEN FoldedMatches(tables, ToLower(tableName), majorVersion.v, 1)
                     ELSE exact
             IN  IF Len(matchingSchemas) = 0
                 THEN [err |-> "no schema found", selected |-> 0]
                 ELSE [err |-> "nil", selected |-> matchingSchemas[1]]

MaxDocTables == 3   \* most tables in a schema document

\* Version strings, each with the major number it is written with (0 when it
\* has none).
GameVersions ==
    {
      \* "3.25"
      [text |-> <<51, 46, 50, 53>>, major |-> 3],
      \* "4.0.1"
      [text |-> <<52, 46, 48, 46, 49>>, major |-> 4],
      \* "4"
      [text |-> <<52>>, major |-> 4],
      \* "+3.1"
      [text |-> <<43, 51, 46, 49>>, major |-> 3],
      \* "03.2"
      [text |-> <<48, 51, 46, 50>>, major |-> 3],
      \* "2.9"
      [text |-> <<50, 46, 57>>, major |-> 2],
      \* "5.0"
      [text |-> <<53, 46, 48>>, major |-> 5],
      \* "10.1"
      [text |-> <<49, 48, 46, 49>>, major |-> 10],
      \* ""
      [text |-> <<>>, major |-> 0],
      \* "x.1"
      [text |-> <<120, 46, 49>>, major |-> 0],
      \* ".3"
      [text |-> <<46, 51>>, major |-> 0],
      \* "3a.1"
      [text |-> <<51, 97, 46, 49>>, major |-> 0],
      \* "-3.0"
      [text |-> <<45, 51, 46, 48>>, major |-> -3]
    }

DocTables ==
    SeqsUpTo([Name : {TableT, ToLower(TableT)}, ValidFor : 0..(ValidForPoE1 + ValidForPoE2)],
             MaxDocTables)

LookupInit ==
    \E tables \in DocTables, tableName \in {TableT, ToLower(TableT), TableU},
       gameVersion \in GameVersions :
        lookup = [state |-> "ready", tables |-> tables, tableName |-> tableName,
                  gameVersion |-> gameVersion, res |-> None]

GetTableSchemaForVersion ==
    /\ lookup.state = "ready"
    /\ lookup' = [lookup EXCEPT
                    !.state = "done",
                    !.res = GetTableSchemaForVersionResult(lookup.tables, lookup.tableName,
                                                           lookup.gameVersion.text)]
    /\ UNCHANGED notLookup

NextLookup == GetTableSchemaForVersion

InitLookup ==
    /\ component = "schema" /\ LookupInit
    /\ BundleIdle /\ MgrIdle /\ DatIdle /\ IxIdle
    /\ StrIdle /\ ParIdle /\ ConcIdle /\ BsetIdle /\ LateIdle

SpecLookup == InitLookup /\ [][NextLookup]_vars

\* The game's bit for a major number: PoE2 from 4 on, PoE1 below.
GameBit(major) == IF major >= 4 THEN ValidForPoE2 ELSE ValidForPoE1

Compatible(l, i) ==
    (l.tables[i].ValidFor \div GameBit(l.gameVersion.major)) % 2 = 1

ExactCompatible(l) ==
    {i \in 1..Len(l.tables) : l.tables[i].Name = l.tableName /\ Compatible(l, i)}

FoldedCompatible(l) ==
    {i \in 1..Len(l.tables) :
        ToLower(l.tables[i].Name) = ToLower(l.tableName) /\ Compatible(l, i)}

Least(S) == CHOOSE i \in S : \A j \in S : i <= j

\* C20: the lookup gives the first compatible table with exactly the name;
\* when there is none, the first compatible table with the name up to case;
\* and an error when there is none either or the major number is not 3 or 4.
C20_FirstCompatibleMatch ==
    (component = "schema" /\ lookup.state = "done")
    => IF lookup.gameVersion.major \notin {3, 4}
       THEN lookup.res.err /= "nil"
       ELSE IF ExactCompatible(lookup) /= {}
       THEN lookup.res = [err |-> "nil", selected |-> Least(ExactCompatible(lookup))]
       ELSE IF FoldedCompatible(lookup) /= {}
       THEN lookup.res = [err |-> "nil", selected |-> Least(FoldedCompatible(lookup))]
       ELSE lookup.res.err /= "nil"

\* An incompatible table with exactly the name comes first; the lookup falls
\* back to the first compatible one that matches up to case.
C20_Witness ==
    /\ component = "schema" /\ lookup.state = "done"
    /\ lookup.gameVersion.major = 4
    /\ Len(lookup.tables) = 3
    /\ lookup.tables[1].Name = lookup.tableName
    /\ lookup.tables[1].ValidFor = ValidForPoE1
    /\ lookup.tables[2].Name /= lookup.tableName
    /\ lookup.tables[2].ValidFor = ValidForPoE1
    /\ lookup.tables[3].Name /= lookup.tableName
    /\ lookup.res = [err |-> "nil", selected |-> 3]

-----------------------------------------------------------------------------
(* Path hashes: MurmurHashPath and FNVHashPath on paths written in          *)
(* different cases                                                          *)

MaxPathLen == 2     \* longest varying tail of a hashed path

\* "Data/Ab/": with a tail, a path of one 8-byte chunk and a remainder.
StrDataAb == <<68, 97, 116, 97, 47, 65, 98, 47>>

\* 'A', 'a', 'Z', '/', and '[' next to the letters' range.
PathBytes == {65, 97, 90, 47, 91}

HashedPaths ==
    {pre \o tail : pre \in {<<>>, StrDataAb}, tail \in SeqsUpTo(PathBytes, MaxPathLen)}

Recased(path, how) ==
    CASE how = "upper" -> ToUpper(path)
      [] how = "lower" -> ToLower(path)
      [] OTHER -> path

HashInit ==
    \E path \in HashedPaths, how \in {"same", "upper", "lower"} :
        fn = [state |-> "ready", op |-> "hash", path |-> path,
              other |-> Recased(path, how), res |-> None]

\* Both hashes of the path and of the same path in another case.
HashPaths ==
    /\ fn.state = "ready" /\ fn.op = "hash"
    /\ fn' = [fn EXCEPT !.state = "done",
                        !.res = [murmur |-> MurmurHashPath(fn.path),
                                 fnv |-> FNVHashPath(fn.path),
                                 murmurOther |-> MurmurHashPath(fn.other),
                                 fnvOther |-> FNVHashPath(fn.other)]]
    /\ UNCHANGED notFn

NextHash == HashPaths

InitHash ==
    /\ component = "hash" /\ HashInit
    /\ BundleIdle /\ MgrIdle /\ DatIdle /\ IxIdle
    /\ StrIdle /\ ParIdle /\ ConcIdle /\ BsetIdle /\ LookupIdle /\ ExtractIdle

SpecHash == InitHash /\ [][NextHash]_vars

Hashed == component = "hash" /\ fn.state = "done"

\* C21: a path and the same path in another case (its lowercase form among
\* them) have the same modern hash and the same legacy hash, so that both
\* find the same record of the file table.
C21_HashIgnoresCase ==
    Hashed
    => /\ fn.res.murmur = fn.res.murmurOther
       /\ fn.res.fnv = fn.res.fnvOther
       /\ \A hash \in {fn.res.murmur, fn.res.fnv} :
             /\ Lookup(<<hash>>, fn.res.murmur) = Lookup(<<hash>>, fn.res.murmurOther)
             /\ Lookup(<<hash>>, fn.res.fnv) = Lookup(<<hash>>, fn.res.fnvOther)

C21_Witness ==
    /\ Hashed
    /\ fn.path /= fn.other
    /\ Len(fn.path) > Len(StrDataAb)
    /\ fn.path /= ToLower(fn.path)
    /\ fn.other = ToLower(fn.path)
    /\ fn.res.murmur = fn.res.murmurOther
    /\ fn.res.fnv = fn.res.fnvOther

-----------------------------------------------------------------------------
(* Row-reference arrays: ReadArray on heaps of key values *)

MaxCount == 4

\* The u32 values stored in the heaps: the four of Heap, then the largest
\* index and the first one above it, and the fill patterns of debug builds.
KeyLists ==
    {<<U32LE(1), Sentinel32, U32LE(0), <<205, 205, 205, 205>>>>,
     <<U32LE(MaxReasonableForeignKeyIndex), U32LE(MaxReasonableForeignKeyIndex + 1),
       <<255, 255, 255, 255>>, <<204, 204, 204, 204>>>>,
     <<<<221, 221, 221, 221>>, <<238, 254, 238, 254>>, U32LE(2), U32LE(3)>>}

KeysOf(list, count) == [i \in 1..count |-> list[((i - 1) % Len(list)) + 1]]

\* The keys laid out one every stride bytes, zero between them.
Laid(values, stride) ==
    [k \in 1..(Len(values) * stride) |->
        IF (k - 1) % stride < 4
        THEN values[((k - 1) \div stride) + 1][((k - 1) % stride) + 1]
        ELSE 0]

\* What follows the array in the heap: nothing, or 16 bytes of other data.
HeapTails == {<<>>, U32LE(9) \o U32LE(9) \o U32LE(9) \o U32LE(9)}

ArrayInit ==
    \E elementType \in {"row", "foreignrow", "enumrow"}, width \in {32, 64},
       count \in 0..MaxCount, list \in KeyLists, stride \in {4, 8, 16},
       tail \in HeapTails :
        fn = [state |-> "ready", op |-> "array", elementType |-> elementType,
              width |-> width, count |-> count, values |-> KeysOf(list, count),
              stride |-> stride,
              dynamicData |-> BoundaryMarker \o Laid(KeysOf(list, count), stride) \o tail,
              res |-> None]

\* ReadArray of the array that starts right after the boundary marker.
ReadArrayCall ==
    /\ fn.state = "ready" /\ fn.op = "array"
    /\ fn' = [fn EXCEPT !.state = "done",
                        !.res = ReadArray([NewDATParser EXCEPT !.width = fn.width],
                                          fn.dynamicData, U32LE(Len(BoundaryMarker)),
                                          U32LE(fn.count), fn.elementType)]
    /\ UNCHANGED notFn

NextArray == ReadArrayCall

InitArray ==
    /\ component = "array" /\ ArrayInit
    /\ BundleIdle /\ MgrIdle /\ DatIdle /\ IxIdle
    /\ StrIdle /\ ParIdle /\ ConcIdle /\ BsetIdle /\ LookupIdle /\ ExtractIdle

SpecArray == InitArray /\ [][NextArray]_vars

ArrayRead == component = "array" /\ fn.state = "done" /\ fn.count > 0

\* The fill patterns that stand for no reference.
FillPatterns ==
    {<<255, 255, 255, 255>>, <<205, 205, 205, 205>>, <<204, 204, 204, 204>>,
     <<221, 221, 221, 221>>, <<238, 254, 238, 254>>}

\* The element a stored u32 stands for: null, or the row it names.
RowRef(valueBytes) ==
    IF \/ valueBytes = <<0, 0, 0, 0>> \/ valueBytes = Sentinel32
       \/ U32Val(valueBytes) > MaxReasonableForeignKeyIndex
       \/ valueBytes \in FillPatterns
    THEN Null
    ELSE [kind |-> "ref", v |-> U32Val(valueBytes)]

\* The distance between two elements of a row-reference array in a 64-bit file.
StrideOf64(elementType) == IF elementType = "row" THEN 4 ELSE ElementSize64BitForeignRow

\* C22: in a 64-bit file, element i of a row-reference array is the u32 at
\* i * stride from the array's start, the stride being 16 for foreignrow and
\* enumrow arrays and 4 for row arrays; so a row array of count 4 over the
\* 16 bytes {1, 0xFEFEFEFE, 0, 0xCDCDCDCD} is [1, null, null, null].
C22_ElementStride ==
    (ArrayRead /\ fn.width = 64 /\ fn.stride = StrideOf64(fn.elementType))
    => /\ fn.res.err = "nil"
       /\ fn.res.v.elems = [i \in 1..fn.count |-> RowRef(fn.values[i])]

\* The u32 that readTypedArray reads for element i (from 1) of the array.
StoredKey(i) ==
    Slice(fn.dynamicData, Len(BoundaryMarker) + (i - 1) * Size(fn.elementType, fn.width), 4)

\* C27: a decoded row-reference array has exactly count elements, and each
\* of them is null when its u32 is 0, 0xFEFEFEFE, above 100,000,000 or one
\* of the debug fill patterns, and is that value otherwise.
C27_NullElements ==
    (ArrayRead /\ fn.res.err = "nil")
    => /\ Len(fn.res.v.elems) = fn.count
       /\ \A i \in 1..fn.count : fn.res.v.elems[i] = RowRef(StoredKey(i))

C27_Witness ==
    /\ ArrayRead /\ fn.res.err = "nil"
    /\ fn.elementType = "foreignrow" /\ fn.stride = 16 /\ fn.count >= 4
    /\ fn.res.v.elems[1] = [kind |-> "ref", v |-> MaxReasonableForeignKeyIndex]
    /\ StoredKey(2) = U32LE(MaxReasonableForeignKeyIndex + 1)
    /\ StoredKey(4) \in FillPatterns
    /\ fn.res.v.elems[2] = Null /\ fn.res.v.elems[4] = Null

-----------------------------------------------------------------------------
(* findAlignedBoundaryMarker, one iteration of its loop at a time *)

MaxLead == 3

MaxRun == 10

MaxAlign == 4

Bytes(n, c) == [i \in 1..n |-> c]

\* Some bytes, a run of 0xBB, a separator, and a second run or none.
BoundaryData ==
    {Bytes(lead, 0) \o Bytes(run, BoundaryMarker[1]) \o sep \o Bytes(second, BoundaryMarker[1]) :
        lead \in 0..MaxLead, run \in 0..MaxRun, sep \in {<<0>>, <<186, 0>>},
        second \in {0, Len(BoundaryMarker), Len(BoundaryMarker) + 1}}

FindInit ==
    \E data \in BoundaryData, rowCount \in 0..MaxAlign :
        fn = [state |-> "ready", op |-> "find", data |-> data, rowCount |-> rowCount,
              fromIndex |-> 0, res |-> -1]

\* The rowCount = 0 return, or one iteration of the loop.
FindStep ==
    /\ fn.state = "ready" /\ fn.op = "find"
    /\ \E idx \in {IndexOfMarker(fn.data, fn.fromIndex)} :
          fn' = IF fn.rowCount = 0 \/ idx = -1 \/ GoMod(idx, fn.rowCount) = 0
                THEN [fn EXCEPT !.state = "done", !.res = idx]
                ELSE [fn EXCEPT !.fromIndex = NextFrom(idx)]
    /\ UNCHANGED notFn

NextBoundary == FindStep

InitBoundary ==
    /\ component = "boundary" /\ FindInit
    /\ BundleIdle /\ MgrIdle /\ DatIdle /\ IxIdle
    /\ StrIdle /\ ParIdle /\ ConcIdle /\ BsetIdle /\ LookupIdle /\ ExtractIdle

\* The loop is the only thing the call does, so it keeps running.
SpecBoundary == InitBoundary /\ [][NextBoundary]_vars /\ WF_vars(NextBoundary)

FindDone == component = "boundary" /\ fn.state = "done"

RunAt(data, i) == i + Len(BoundaryMarker) <= Len(data) /\ Slice(data, i, 8) = BoundaryMarker

AlignedRuns(data, rowCount) ==
    {i \in 0..Len(data) : RunAt(data, i) /\ (rowCount = 0 \/ i % rowCount = 0)}

SmallestAlignedRun ==
    FindDone
    => /\ fn.res = findAlignedBoundaryMarker(fn.data, fn.rowCount)
       /\ IF AlignedRuns(fn.data, fn.rowCount) = {} THEN fn.res = -1
          ELSE /\ fn.res \in AlignedRuns(fn.data, fn.rowCount)
               /\ \A i \in AlignedRuns(fn.data, fn.rowCount) : fn.res <= i

\* C23: findAlignedBoundaryMarker returns the smallest index at which a run
\* of eight 0xBB bytes starts and which is a multiple of rowCount (any index
\* when rowCount is 0), whatever runs that are not aligned come before it,
\* overlapping ones included; it returns not-found exactly when there is no
\* such index; and it always returns.
C23_SmallestAlignedMarker == []SmallestAlignedRun /\ <>FindDone

\* An aligned run found right behind an overlapping run that is not aligned.
C23_Witness ==
    /\ FindDone /\ fn.rowCount > 1 /\ fn.res > 0
    /\ RunAt(fn.data, fn.res - 1)
    /\ fn.fromIndex = fn.res

-----------------------------------------------------------------------------
(* readPathspec on pathrep blocks written from lists of entries *)

MaxEntries == 4

\* An entry of a block: the phase toggle, or an index and a string.
Toggle == [n |-> 0, s |-> <<>>]

BlockEntries == {Toggle, [n |-> 1, s |-> <<97>>], [n |-> 2, s |-> <<98, 47>>], [n |-> 3, s |-> <<>>]}

\* The bytes of the entries; the last string ends with its NUL or without.
RECURSIVE BlockBytes(_, _, _)
BlockBytes(entries, i, lastNul) ==
    IF i > Len(entries) THEN <<>>
    ELSE U32LE(entries[i].n)
         \o (IF entries[i].n = 0 THEN <<>>
             ELSE entries[i].s \o (IF i < Len(entries) \/ lastNul THEN <<0>> ELSE <<>>))
         \o BlockBytes(entries, i + 1, lastNul)

PathspecInit ==
    \E entries \in SeqsUpTo(BlockEntries, MaxEntries), lastNul \in BOOLEAN, stray \in 0..3 :
        /\ ~lastNul => stray = 0
        /\ fn = [state |-> "ready", op |-> "pathspec", entries |-> entries,
                 stray |-> stray,
                 data |-> BlockBytes(entries, 1, lastNul) \o Bytes(stray, 1),
                 res |-> None]

ReadPathspecCall ==
    /\ fn.state = "ready" /\ fn.op = "pathspec"
    /\ fn' = [fn EXCEPT !.state = "done", !.res = readPathspec(fn.data)]
    /\ UNCHANGED notFn

NextPathspec == ReadPathspecCall

InitPathspec ==
    /\ component = "pathspec" /\ PathspecInit
    /\ BundleIdle /\ MgrIdle /\ DatIdle /\ IxIdle
    /\ StrIdle /\ ParIdle /\ ConcIdle /\ BsetIdle /\ LookupIdle /\ ExtractIdle

SpecPathspec == InitPathspec /\ [][NextPathspec]_vars

PathspecRead == component = "pathspec" /\ fn.state = "done"

\* The outputs of the two-phase machine run over the entries themselves.
RECURSIVE Emitted(_, _, _, _, _)
Emitted(entries, i, phase, names, output) ==
    IF i > Len(entries) THEN output
    ELSE IF entries[i].n = 0 THEN Emitted(entries, i + 1, 1 - phase, names, output)
    ELSE LET str == IF entries[i].n - 1 < Len(names)
                    THEN names[entries[i].n] \o entries[i].s ELSE entries[i].s
         IN  IF phase = 0 THEN Emitted(entries, i + 1, phase, Append(names, str), output)
             ELSE Emitted(entries, i + 1, phase, names, Append(output, str))

\* The machine's outputs, whenever readPathspec returns.
PathspecOutputsWhenReturned ==
    (PathspecRead /\ fn.res.outcome = "ok")
    => fn.res.output = Emitted(fn.entries, 1, 1, <<>>, <<>>)

\* C24: readPathspec runs the two-phase machine from phase 1 (n = 0 toggles
\* the phase, n > 0 is followed by a string that names[n-1] prefixes when it
\* exists, pushed to names in phase 0 and to the outputs in phase 1), and on
\* every input it ends by returning the outputs in the order they were made.
C24_PathspecReturnsOutputs ==
    PathspecRead
    => /\ fn.res.outcome = "ok"
       /\ fn.res.output = Emitted(fn.entries, 1, 1, <<>>, <<>>)

-----------------------------------------------------------------------------
(* The loop over a pathrep's paths, one path at a time *)

MaxRecords == 3

MaxPaths == 2

\* Hashes of file records: both hashes of "a/x", the modern one of "a/y",
\* and one that no path has.
RecordHashes ==
    {MurmurHashPath(PathAX), FNVHashPath(PathAX), MurmurHashPath(PathAY), Zeros(8)}

\* File tables without a hash twice.
Filemaps ==
    {filemap \in SeqsUpTo(RecordHashes, MaxRecords) :
        \A i, j \in 1..Len(filemap) : filemap[i] = filemap[j] => i = j}

AssignInit ==
    \E filemap \in Filemaps, paths \in SeqsUpTo({PathAX, PathAY}, MaxPaths) :
        /\ paths /= <<>>
        /\ fn = [state |-> "ready", op |-> "assign", filemap |-> filemap, paths |-> paths,
                 i |-> 0, prev |-> <<>>,
                 files |-> [k \in 1..Len(filemap) |-> [path |-> <<>>, hash |-> filemap[k]]]]

\* The loop body for the next path of the list.
AssignPath ==
    /\ fn.state = "ready" /\ fn.op = "assign"
    /\ fn' = [fn EXCEPT !.i = fn.i + 1,
                        !.prev = fn.files,
                        !.files = AssignPaths(fn.files, fn.filemap, <<fn.paths[fn.i + 1]>>, 1),
                        !.state = IF fn.i + 1 = Len(fn.paths) THEN "done" ELSE "ready"]
    /\ UNCHANGED notFn

NextAssign == AssignPath

InitAssign ==
    /\ component = "assign" /\ AssignInit
    /\ BundleIdle /\ MgrIdle /\ DatIdle /\ IxIdle
    /\ StrIdle /\ ParIdle /\ ConcIdle /\ BsetIdle /\ LookupIdle /\ ExtractIdle

SpecAssign == InitAssign /\ [][NextAssign]_vars

PathAssigned == component = "assign" /\ fn.i > 0

ModernRecord == Lookup(fn.filemap, MurmurHashPath(fn.paths[fn.i]))

LegacyRecord == Lookup(fn.filemap, FNVHashPath(fn.paths[fn.i]))

\* C25: a path goes to the record of its modern hash when the file table has
\* that hash; to the record of its legacy hash only when it has not; and
\* when it has neither, the path is skipped and no record changes.
C25_ModernThenLegacy ==
    PathAssigned
    => \E modern \in {ModernRecord}, legacy \in {LegacyRecord} :
          fn.files = IF modern /= 0 THEN [fn.prev EXCEPT ![modern].path = fn.paths[fn.i]]
                     ELSE IF legacy /= 0 THEN [fn.prev EXCEPT ![legacy].path = fn.paths[fn.i]]
                     ELSE fn.prev

\* Both hashes of the path are in the table: the modern one's record has the
\* path, the legacy one's has none.
C25_Witness ==
    /\ PathAssigned /\ fn.i = 1
    /\ ModernRecord /= 0 /\ LegacyRecord /= 0
    /\ fn.files[ModernRecord].path = fn.paths[1]
    /\ fn.files[LegacyRecord].path = <<>>

-----------------------------------------------------------------------------
(* DAT decoder: rows narrower than the schema *)

\* The call came to its row loop and was not cancelled.
WalkedRows(d) == d.state = "done" /\ d.rowSize > 0 /\ ~d.cancelled

\* The first column (from 1) whose slot does not fit row i, one past the
\* last column when all fit.
RECURSIVE FirstUnfit(_, _, _)
FirstUnfit(d, i, k) ==
    IF k > Len(d.schema.Columns) \/ ~SlotFits(d, i, k) THEN k
    ELSE FirstUnfit(d, i, k + 1)

\* What column j of row i decodes to.
Decoded(d, i, j) == parseFieldValue(d.parser, SlotOf(d, i, j), d.schema.Columns[j], d.DynamicData)

\* Row i is cut short by a slot that does not fit, every column before it
\* being decodable.
CutShort(d, i) ==
    /\ FirstUnfit(d, i, 1) <= Len(d.schema.Columns)
    /\ \A j \in 1..(FirstUnfit(d, i, 1) - 1) : Decoded(d, i, j).err = "nil"

\* C26: when the slot of the next column does not fit what is left of the
\* row, the walk over the row stops at that column and the file does not
\* fail: the row keeps the fields decoded before it, FieldsParsed is their
\* number, and every row of the file is in the table.
C26_ShortRowStopsWalk ==
    (component = "dat" /\ WalkedRows(dat))
    => \A i \in 0..(dat.RowCount - 1) :
          CutShort(dat, i)
          => /\ dat.err = "nil"
             /\ Len(dat.table.Rows) = dat.RowCount
             /\ \E row \in {dat.table.Rows[i + 1]}, k \in {FirstUnfit(dat, i, 1)} :
                   /\ row.Index = i
                   /\ row.FieldsParsed = k - 1
                   /\ Len(row.Fields) = k - 1
                   /\ \A j \in 1..(k - 1) :
                         /\ row.Fields[j].name = dat.schema.Columns[j].name
                         /\ row.Fields[j].value = Decoded(dat, i, j).v

\* Two rows one u32 narrower than the schema's: each keeps its first field.
C26_Witness ==
    /\ component = "dat" /\ WalkedRows(dat) /\ dat.RowCount = 2
    /\ \A i \in {0, 1} :
          /\ CutShort(dat, i) /\ FirstUnfit(dat, i, 1) = 2
          /\ dat.table.Rows[i + 1].FieldsParsed = 1
          /\ dat.table.Rows[i + 1].Fields[1].value = [kind |-> "i32", bytes |-> U32LE(7)]

-----------------------------------------------------------------------------
(* Bundle reader: the header checks of OpenBundle *)

\* ceil(size / granularity) for granularity > 0.
CeilDiv(size, granularity) == -((-size) \div granularity)

RECURSIVE SumRawSizes(_, _)
SumRawSizes(bd, blkId) ==
    IF blkId >= Len(bd.blocks) THEN 0
    ELSE RawSize(bd, blkId) + SumRawSizes(bd, blkId + 1)

\* The header breaks the granularity rule or the block-count rule.
HeaderViolates(f) ==
    \/ f.UncompressedBlockGranularity <= 0
    \/ f.BlockCount /= CeilDiv(f.UncompressedSize2, f.UncompressedBlockGranularity)

\* C28: a bundle that OpenBundle returns has granularity > 0 and as many
\* blocks as ceil(size / granularity), and the uncompressed sizes ReadAt
\* takes for its blocks add up to Size(); a header that breaks one of the
\* two rules is rejected with an error.
C28_OpenedBundleWellFormed ==
    (component = "bundle" /\ b.state /= "none")
    => /\ b.state = "open"
          => /\ b.granularity > 0
             /\ Len(b.blocks) = CeilDiv(b.size, b.granularity)
             /\ SumRawSizes(b, 0) = b.size
       /\ HeaderViolates(r) => b.state = "error"

-----------------------------------------------------------------------------
(* The extract command: the loop over the configured languages for a table *)

\* The manager the command builds: the loaded index, SetLanguages(cfg.Languages).
ExtractManager(present, languages) ==
    [index |-> [bundles |-> BundleNames,
                files |-> SortByPath({FileInfo(j) : j \in present})],
     languages |-> IF Len(languages) = 0 THEN <<English>> ELSE languages]

\* Every bundle is in the cache, whole.
ExtractCache == [name \in {BundleNames[k] : k \in 1..Len(BundleNames)} |-> CachedBundle(0)]

\* The index holds any of the table's three files: the English base file,
\* the French one and the German one.
ExtractInit ==
    \E present \in SUBSET (1..3), languages \in LanguageLists :
        /\ languages /= <<>>
        /\ extract = [state |-> "loop", languages |-> languages,
                      mgr |-> ExtractManager(present, languages),
                      next |-> 1, stored |-> <<>>]

\* The body of the loop for one language: the two FileExists calls, the
\* choice of the path, GetFile, and the rows kept under the language.  The
\* decoding of the bytes is left out: every file read has rows.
ExtractLanguage ==
    /\ extract.state = "loop"
    /\ extract.next <= Len(extract.languages)
    /\ \E language \in {extract.languages[extract.next]} :
       \E basePath \in {StrDataLower \o FileT},
          languagePath \in {StrDataLower \o ToLower(language) \o StrSlash \o FileT} :
       \E langPathExists \in {FileExistsResult(extract.mgr, languagePath)},
          basePathExists \in {FileExistsResult(extract.mgr, basePath)} :
          IF ~langPathExists /\ ~basePathExists
          THEN extract' = [extract EXCEPT !.next = @ + 1]
          ELSE \E got \in {GetFileResult(extract.mgr, ExtractCache,
                                         IF langPathExists THEN languagePath ELSE basePath)} :
                  IF got.err /= "nil"
                  THEN extract' = [extract EXCEPT !.next = @ + 1]
                  ELSE extract' = [extract EXCEPT
                                      !.next = @ + 1,
                                      !.stored = Append(@, [Language |-> language,
                                                            from |-> got.used,
                                                            data |-> got.data])]
    /\ UNCHANGED notExtract

\* The loop is over.
ExtractDone ==
    /\ extract.state = "loop"
    /\ extract.next > Len(extract.languages)
    /\ extract' = [extract EXCEPT !.state = "done"]
    /\ UNCHANGED notExtract

NextExtract == ExtractLanguage \/ ExtractDone

InitExtract ==
    /\ component = "extract" /\ ExtractInit
    /\ BundleIdle /\ MgrIdle /\ DatIdle /\ IxIdle
    /\ StrIdle /\ ParIdle /\ ConcIdle /\ BsetIdle /\ LookupIdle /\ FnIdle

SpecExtract == InitExtract /\ [][NextExtract]_vars

\* The file of the table in a language.
OwnFile(language) == LangPath(language, FileT)

\* C29: the rows kept under a language come from that language's own file
\* when the index holds it, and from the English base file otherwise; never
\* from the file of another configured language, in whatever order the
\* languages are configured.
C29_RowsFromOwnLanguageFile ==
    component = "extract"
    => \A i \in 1..Len(extract.stored) :
          extract.stored[i].from =
              IF InIndex(extract.mgr, OwnFile(extract.stored[i].Language))
              THEN OwnFile(extract.stored[i].Language)
              ELSE OwnFile(English)

-----------------------------------------------------------------------------
(* Index decoder: the order in which the pathrep map is visited *)

\* C30: the index that loading returns is the same in whatever order the
\* entries of the pathrep map are visited: every record has the same path
\* and the sorted list is the same, also when two paths of different
\* pathreps go to one record.
C30_IndexIndependentOfVisitOrder ==
    (Loaded /\ ix.result.outcome = "index")
    => \A order \in Orders({1, 2}) : LoadIndexResult(ix.data, order) = ix.result

====
